---------------------------- MODULE Spec2Model ----------------------------
(***************************************************************************)
(* A model of MultiAIEngine (src/src/core/multi_ai_engine.py): the task    *)
(* classifier, the model selector, the dispatch to the OpenAI and Gemini   *)
(* adapters, the personality step and the bounded conversation history.    *)
(*                                                                         *)
(* Representation.  A Python str is a sequence of characters; a character  *)
(* is a one-letter string, and a Persian letter is written by its code     *)
(* point ("u0633" is U+0633), as the module's strings are ASCII.  An Enum  *)
(* member is written by its value ("gpt-4", "conversation").  A dict is a  *)
(* function whose DOMAIN is its keys; an insertion-ordered dict that the   *)
(* code iterates is a sequence.  A float level p is the integer 100 * p.   *)
(***************************************************************************)
EXTENDS Integers, Sequences, FiniteSets, TLC

(***************************************************************************)
(* Strings                                                                 *)
(***************************************************************************)
UpperCase ==
    <<"A", "B", "C", "D", "E", "F", "G", "H", "I", "J", "K", "L", "M",
      "N", "O", "P", "Q", "R", "S", "T", "U", "V", "W", "X", "Y", "Z">>

LowerCase ==
    <<"a", "b", "c", "d", "e", "f", "g", "h", "i", "j", "k", "l", "m",
      "n", "o", "p", "q", "r", "s", "t", "u", "v", "w", "x", "y", "z">>

\* str.lower() on one character: A..Z map to a..z, every other character of
\* the model's alphabet (Persian letters, digits, punctuation) is unchanged.
LowerChar(ch) ==
    IF \E i \in DOMAIN UpperCase : UpperCase[i] = ch
    THEN LowerCase[CHOOSE i \in DOMAIN UpperCase : UpperCase[i] = ch]
    ELSE ch

\* s.lower()
Lower(s) == [i \in DOMAIN s |-> LowerChar(s[i])]

\* sub in s  (Python's substring test; the empty string is in every string)
Contains(sub, s) ==
    \E i \in 0 .. (Len(s) - Len(sub)) : SubSeq(s, i + 1, i + Len(sub)) = sub

\* dict.get(key, default)
Get(d, key, default) == IF key \in DOMAIN d THEN d[key] ELSE default

\* The elements of a list.
Range(s) == {s[i] : i \in DOMAIN s}

(***************************************************************************)
(* class TaskType, class AIModel                                           *)
(***************************************************************************)
CONVERSATION == "conversation"
CONTENT_GENERATION == "content_generation"
FINANCIAL_ADVICE == "financial_advice"
PSYCHOLOGICAL_SUPPORT == "psychological_support"
CREATIVE_WRITING == "creative_writing"
TECHNICAL_ANALYSIS == "technical_analysis"
TRANSLATION == "translation"
RESEARCH == "research"
MEDITATION == "meditation"
COMPANIONSHIP == "companionship"

TaskType ==
    {CONVERSATION, CONTENT_GENERATION, FINANCIAL_ADVICE, PSYCHOLOGICAL_SUPPORT,
     CREATIVE_WRITING, TECHNICAL_ANALYSIS, TRANSLATION, RESEARCH, MEDITATION,
     COMPANIONSHIP}

GPT4 == "gpt-4"
GPT35_TURBO == "gpt-3.5-turbo"
GEMINI_PRO == "gemini-pro"
CLAUDE == "claude-3"
LLAMA2 == "llama-2-70b"
T5 == "t5-large"

AIModel == {GPT4, GPT35_TURBO, GEMINI_PRO, CLAUDE, LLAMA2, T5}

\* Python's None: where a string or an Enum member is expected, and where an
\* object (a dict, a dataclass instance, an exception) is expected.
None == "None"

NoneObj == [none |-> TRUE]

(***************************************************************************)
(* _detect_task_type                                                       *)
(***************************************************************************)
\* task_keywords: an insertion-ordered dict, TaskType -> list of keywords.
task_keywords ==
    <<      [task |-> FINANCIAL_ADVICE,
       keywords |->
         << <<"u0633", "u0647", "u0627", "u0645">>,
            <<"u0628", "u0648", "u0631", "u0633">>,
            <<"u0627", "u0631", "u0632">>,
            <<"u0628", "u06cc", "u062a", " ", "u06a9", "u0648", "u06cc", "u0646">>,
            <<"u062a", "u0631", "u06cc", "u062f", "u06cc", "u0646", "u06af">>,
            <<"u0633", "u0631", "u0645", "u0627", "u06cc", "u0647", "u200c", "u06af", "u0630", "u0627", "u0631", "u06cc">>,
            <<"s", "t", "o", "c", "k">>,
            <<"c", "r", "y", "p", "t", "o">>,
            <<"b", "i", "t", "c", "o", "i", "n">>,
            <<"t", "r", "a", "d", "i", "n", "g">>,
            <<"i", "n", "v", "e", "s", "t", "m", "e", "n", "t">> >>],
      [task |-> PSYCHOLOGICAL_SUPPORT,
       keywords |->
         << <<"u063a", "u0645", "u06af", "u06cc", "u0646">>,
            <<"u0627", "u0633", "u062a", "u0631", "u0633">>,
            <<"u0627", "u0636", "u0637", "u0631", "u0627", "u0628">>,
            <<"u0645", "u0634", "u06a9", "u0644">>,
            <<"u0646", "u06af", "u0631", "u0627", "u0646">>,
            <<"u0627", "u0641", "u0633", "u0631", "u062f", "u0647">>,
            <<"s", "a", "d">>,
            <<"s", "t", "r", "e", "s", "s">>,
            <<"a", "n", "x", "i", "e", "t", "y">>,
            <<"w", "o", "r", "r", "i", "e", "d">>,
            <<"d", "e", "p", "r", "e", "s", "s", "e", "d">>,
            <<"h", "e", "l", "p", " ", "m", "e">> >>],
      [task |-> CREATIVE_WRITING,
       keywords |->
         << <<"u062f", "u0627", "u0633", "u062a", "u0627", "u0646">>,
            <<"u0634", "u0639", "u0631">>,
            <<"u0646", "u0648", "u0634", "u062a", "u0646">>,
            <<"u062e", "u0644", "u0627", "u0642", "u06cc", "u062a">>,
            <<"u0645", "u062a", "u0646">>,
            <<"s", "t", "o", "r", "y">>,
            <<"p", "o", "e", "m">>,
            <<"w", "r", "i", "t", "e">>,
            <<"c", "r", "e", "a", "t", "i", "v", "e">>,
            <<"c", "o", "n", "t", "e", "n", "t">> >>],
      [task |-> TRANSLATION,
       keywords |->
         << <<"u062a", "u0631", "u062c", "u0645", "u0647">>,
            <<"t", "r", "a", "n", "s", "l", "a", "t", "e">>,
            <<"u0645", "u0639", "u0646", "u06cc">>,
            <<"m", "e", "a", "n", "i", "n", "g">> >>],
      [task |-> MEDITATION,
       keywords |->
         << <<"u0622", "u0631", "u0627", "u0645", "u0634">>,
            <<"u0645", "u062f", "u06cc", "u062a", "u06cc", "u0634", "u0646">>,
            <<"u062a", "u0646", "u0641", "u0633">>,
            <<"u0622", "u0631", "u0627", "u0645">>,
            <<"u0627", "u0633", "u062a", "u0631", "u0627", "u062d", "u062a">>,
            <<"m", "e", "d", "i", "t", "a", "t", "i", "o", "n">>,
            <<"r", "e", "l", "a", "x">>,
            <<"c", "a", "l", "m">>,
            <<"p", "e", "a", "c", "e">>,
            <<"b", "r", "e", "a", "t", "h", "e">> >>],
      [task |-> RESEARCH,
       keywords |->
         << <<"u062a", "u062d", "u0642", "u06cc", "u0642">>,
            <<"u062c", "u0633", "u062a", "u062c", "u0648">>,
            <<"u0627", "u0637", "u0644", "u0627", "u0639", "u0627", "u062a">>,
            <<"u06cc", "u0627", "u062f", " ", "u0628", "u06af", "u06cc", "u0631">>,
            <<"u0628", "u06af", "u0648">>,
            <<"r", "e", "s", "e", "a", "r", "c", "h">>,
            <<"s", "e", "a", "r", "c", "h">>,
            <<"i", "n", "f", "o", "r", "m", "a", "t", "i", "o", "n">>,
            <<"l", "e", "a", "r", "n">>,
            <<"t", "e", "l", "l", " ", "m", "e">> >>] >>

\* A variant that keeps the last maximal element.
PyMaxIndexLast(keys) ==
    CHOOSE i \in DOMAIN keys :
        /\ \A j \in DOMAIN keys : keys[j] <= keys[i]
        /\ \A j \in DOMAIN keys : j > i => keys[j] < keys[i]

\* The first element of a non-empty list with the greatest key: Python's
\* max(iterable, key=...) keeps the first maximal element it meets.
PyMaxIndex(keys) ==
    CHOOSE i \in DOMAIN keys :
        /\ \A j \in DOMAIN keys : keys[j] <= keys[i]
        /\ \A j \in DOMAIN keys : j < i => keys[j] < keys[i]

\* The number of places at which sub occurs in s (overlapping ones included).
Occurrences(sub, s) ==
    Cardinality({i \in 1 .. Len(s) - Len(sub) + 1 :
                    SubSeq(s, i, i + Len(sub) - 1) = sub})

\* A variant of the score that counts every occurrence of a keyword.
RECURSIVE KeywordScoreWithMultiplicity(_, _)
KeywordScoreWithMultiplicity(keywords, input_lower) ==
    IF keywords = <<>> THEN 0
    ELSE Occurrences(Head(keywords), input_lower)
         + KeywordScoreWithMultiplicity(Tail(keywords), input_lower)

\* sum(1 for keyword in keywords if keyword in input_lower)
KeywordScore(keywords, input_lower) ==
    Cardinality({i \in DOMAIN keywords : Contains(keywords[i], input_lower)})

\* task_scores after the loop: the categories with score > 0, in the order of
\* task_keywords, each with its score.
TaskScores(user_input) ==
    LET input_lower == Lower(user_input)
        scored == [i \in DOMAIN task_keywords |->
                     [task |-> task_keywords[i].task,
                      score |-> KeywordScore(task_keywords[i].keywords,
                                             input_lower)]]
    IN  SelectSeq(scored, LAMBDA e : e.score > 0)

\* A variant that returns the first category with a score above zero.
DetectTaskTypeFirstMatch(user_input) ==
    LET task_scores == TaskScores(user_input)
    IN  IF task_scores # <<>> THEN task_scores[1].task ELSE CONVERSATION

\* A variant that takes the maximum over all categories, the ones that score
\* zero included.
DetectTaskTypeWithoutFilter(user_input) ==
    LET input_lower == Lower(user_input)
        scores == [i \in DOMAIN task_keywords |->
                     KeywordScore(task_keywords[i].keywords, input_lower)]
    IN  task_keywords[PyMaxIndex(scores)].task

DetectTaskType(user_input) ==
    LET task_scores == TaskScores(user_input)
    IN  IF task_scores # <<>>
        THEN task_scores[PyMaxIndex([i \in DOMAIN task_scores |->
                                        task_scores[i].score])].task
        ELSE CONVERSATION

(***************************************************************************)
(* _initialize_models                                                      *)
(***************************************************************************)
\* settings as _initialize_models reads it: whether openai_api_key is set, and
\* whether settings has a google_api_key that is set.
Settings == [openai_api_key : BOOLEAN, google_api_key : BOOLEAN]

OpenAIModels ==
    << [model |-> GPT4, client |-> "openai", available |-> TRUE,
        specialties |-> {CONVERSATION, CONTENT_GENERATION, RESEARCH},
        performance_score |-> 95],
       [model |-> GPT35_TURBO, client |-> "openai", available |-> TRUE,
        specialties |-> {CONVERSATION, TRANSLATION},
        performance_score |-> 85] >>

GeminiModels ==
    << [model |-> GEMINI_PRO, client |-> "genai", available |-> TRUE,
        specialties |-> {CREATIVE_WRITING, TECHNICAL_ANALYSIS},
        performance_score |-> 90] >>

LocalModels ==
    << [model |-> LLAMA2, client |-> None, available |-> FALSE,
        specialties |-> {CONVERSATION, RESEARCH},
        performance_score |-> 80],
       [model |-> T5, client |-> None, available |-> FALSE,
        specialties |-> {TRANSLATION, CONTENT_GENERATION},
        performance_score |-> 75] >>

\* self.models after _initialize_models: an insertion-ordered dict.
InitializeModels(s) ==
    (IF s.openai_api_key THEN OpenAIModels ELSE <<>>)
    \o (IF s.google_api_key THEN GeminiModels ELSE <<>>)
    \o LocalModels

(***************************************************************************)
(* _select_best_model                                                      *)
(***************************************************************************)
\* suitable_models: the (model, performance_score) pairs of the available
\* models that list task_type, in the registry's order.
SuitableModels(registry, task_type) ==
    SelectSeq(registry,
              LAMBDA info : info.available /\ task_type \in info.specialties)

\* A variant that returns GPT-3.5 without looking for it in the registry.
FallbackWithoutMembershipTest(registry) == GPT35_TURBO

\* The fallback of the last line: GPT-3.5 when it is a key of self.models,
\* else the first key.
FallbackModel(registry) ==
    IF \E i \in DOMAIN registry : registry[i].model = GPT35_TURBO
    THEN GPT35_TURBO
    ELSE registry[1].model

SelectBestModel(registry, task_type) ==
    LET suitable_models == SuitableModels(registry, task_type)
    IN  IF suitable_models # <<>>
        THEN suitable_models[PyMaxIndex([i \in DOMAIN suitable_models |->
                                suitable_models[i].performance_score])].model
        ELSE FallbackModel(registry)

(***************************************************************************)
(* setup_personality                                                       *)
(***************************************************************************)
\* The name pools; a Persian name is written "fa:<transliteration>".
FemaleNames ==
    <<"fa:Arya", "fa:Nila", "fa:Sara", "fa:Mehrnaz", "fa:Elham",
      "Aria", "Luna", "Sophie">>

MaleNames ==
    <<"fa:Arash", "fa:Kian", "fa:Amir", "fa:Pouya", "fa:Sina",
      "Alex", "Max", "David">>

NeutralNames ==
    <<"fa:Ay", "fa:Hooshyar", "fa:Dana", "AI", "Assistant", "Helper">>

NamePool(gender) ==
    IF gender = "female" THEN FemaleNames
    ELSE IF gender = "male" THEN MaleNames
    ELSE NeutralNames

\* personality_configs; traits and styles are written in transliteration.
personality_configs ==
    [friendly |->
        [traits |-> <<"doostaneh", "mehraban", "saboor", "komak-kar">>,
         communication_style |-> "garm va samimi",
         empathy_level |-> 90, humor_level |-> 70, formality_level |-> 30],
     professional |->
        [traits |-> <<"herfei", "daghigh", "ghabel-e etemad", "karamad">>,
         communication_style |-> "rasmi va moaddabaneh",
         empathy_level |-> 60, humor_level |-> 30, formality_level |-> 80],
     companion |->
        [traits |-> <<"rafigh", "dark-konandeh", "hemayatgar", "arambakhsh">>,
         communication_style |-> "samimi va hemayat-konandeh",
         empathy_level |-> 95, humor_level |-> 80, formality_level |-> 20]]

ExpertiseAreas ==
    <<"mokalemeh omoomi", "moshavereh", "tolid-e mohtava", "tahlil-e mali",
      "hemayat-e ravani", "amoozesh", "sargarmi">>

\* A variant that gives every personality type the friendly configuration.
PersonalityConfigAlwaysFriendly(personality_type) ==
    personality_configs.friendly

\* personality_configs.get(personality_type, personality_configs["friendly"])
PersonalityConfig(personality_type) ==
    Get(personality_configs, personality_type, personality_configs.friendly)

\* A variant that stores the levels as percentages.
MakeProfileInPercent(gender, name, personality_type) ==
    LET config == PersonalityConfig(personality_type)
    IN  [gender |-> gender,
         name |-> name,
         personality_traits |-> config.traits,
         communication_style |-> config.communication_style,
         expertise_areas |-> ExpertiseAreas,
         emotional_intelligence |-> config.empathy_level * 100,
         humor_level |-> config.humor_level * 100,
         formality_level |-> config.formality_level * 100,
         empathy_level |-> config.empathy_level * 100]

\* The PersonalityProfile that setup_personality builds; name is the caller's
\* name or the one random.choice drew.
MakeProfile(gender, name, personality_type) ==
    LET config == PersonalityConfig(personality_type)
    IN  [gender |-> gender,
         name |-> name,
         personality_traits |-> config.traits,
         communication_style |-> config.communication_style,
         expertise_areas |-> ExpertiseAreas,
         emotional_intelligence |-> config.empathy_level,
         humor_level |-> config.humor_level,
         formality_level |-> config.formality_level,
         empathy_level |-> config.empathy_level]

(***************************************************************************)
(* _process_with_model, _process_with_openai, _process_with_gemini         *)
(***************************************************************************)
\* The apology of _process_with_model's handler (a Persian sentence).
FALLBACK_RESPONSE == "fa:motaassefam, dar hal-e hazer moshkeli dar pardazesh-e darkhast-e shoma vojood darad."

GeminiErrorPrefix ==
    <<"G", "e", "m", "i", "n", "i", " ", "e", "r", "r", "o", "r", ":", " ">>

\* str(e): the message of an exception; a KeyError prints the repr of its key.
Str(e) ==
    IF e.type = "KeyError" THEN <<"'">> \o e.arg \o <<"'">> ELSE e.arg

\* The KeyError of entry["response"]["content"] on a response without content.
ContentKeyError ==
    [type |-> "KeyError", arg |-> <<"c", "o", "n", "t", "e", "n", "t">>]

\* conversation_history[-5:]
ReplayWindow == 5

\* A variant whose replay window is the newest entry alone.
RecentHistoryNewestOnly(history) ==
    SubSeq(history, IF history = <<>> THEN 1 ELSE Len(history), Len(history))

RecentHistory(history) ==
    SubSeq(history,
           IF Len(history) > ReplayWindow THEN Len(history) - ReplayWindow + 1
           ELSE 1,
           Len(history))

\* The replay loop of _process_with_openai raises KeyError when an entry of the
\* window has a response without "content".
ReplayRaises(history) ==
    \E i \in DOMAIN RecentHistory(history) :
        "content" \notin DOMAIN RecentHistory(history)[i].response

\* Which adapter _process_with_model calls for the selected model, and with
\* which model argument.
AdapterPath(model) ==
    IF model \in {GPT4, GPT35_TURBO} THEN "openai"
    ELSE IF model = GEMINI_PRO THEN "gemini"
    ELSE "openai"

AdapterModel(model) ==
    IF model \in {GPT4, GPT35_TURBO} THEN model
    ELSE IF model = GEMINI_PRO THEN GEMINI_PRO
    ELSE GPT35_TURBO

\* The dict _process_with_openai returns.
OpenAIResult(model, task_type, response) ==
    [success |-> TRUE,
     content |-> response.content,
     model_used |-> model,
     task_type |-> task_type,
     tokens_used |-> IF "usage" \in DOMAIN response THEN response.usage ELSE 0]

\* The dict of _process_with_model's handler.
ModelFailure(e) ==
    [success |-> FALSE, error |-> Str(e), fallback_response |-> FALLBACK_RESPONSE]

\* The dicts _process_with_gemini returns.
GeminiResult(task_type, response) ==
    [success |-> TRUE,
     content |-> response.content,
     model_used |-> GEMINI_PRO,
     task_type |-> task_type]

GeminiFailure(e) ==
    [success |-> FALSE, error |-> GeminiErrorPrefix \o Str(e)]

\* The keys of system_prompts; a system prompt is written as its key.
SystemPromptTasks ==
    {CONVERSATION, FINANCIAL_ADVICE, PSYCHOLOGICAL_SUPPORT, CREATIVE_WRITING,
     MEDITATION, RESEARCH}

\* system_prompts.get(task_type, system_prompts[TaskType.CONVERSATION])
SystemPrompt(task_type) ==
    IF task_type \in SystemPromptTasks THEN task_type ELSE CONVERSATION

\* The personality_info appended to the system prompt: the fields of the
\* profile the f-string formats; nothing is appended without a profile.
PersonalityInfo(profile) ==
    IF profile = NoneObj
    THEN NoneObj
    ELSE [name |-> profile.name,
          gender |-> profile.gender,
          personality_traits |-> profile.personality_traits,
          communication_style |-> profile.communication_style]

\* A variant that replays the newest entry first.
RECURSIVE ReplayTurnsNewestFirst(_)
ReplayTurnsNewestFirst(entries) ==
    IF entries = <<>>
    THEN <<>>
    ELSE ReplayTurnsNewestFirst(Tail(entries))
         \o << [role |-> "user", content |-> Head(entries).user_input],
               [role |-> "assistant",
                content |-> Head(entries).response.content] >>

\* The two messages of one replayed entry, in the order the two
\* messages.insert(-1, ...) leave them.
RECURSIVE ReplayTurns(_)
ReplayTurns(entries) ==
    IF entries = <<>>
    THEN <<>>
    ELSE << [role |-> "user", content |-> Head(entries).user_input],
            [role |-> "assistant", content |-> Head(entries).response.content] >>
         \o ReplayTurns(Tail(entries))

\* The messages _process_with_openai passes to acreate (when the replay does
\* not raise): the system message, the replayed turns, the user's message.
OpenAIMessages(history, profile, user_input, task_type) ==
    << [role |-> "system",
        content |-> [system_prompt |-> SystemPrompt(task_type),
                     personality_info |-> PersonalityInfo(profile)]] >>
    \o ReplayTurns(RecentHistory(history))
    \o << [role |-> "user", content |-> user_input] >>

\* What the adapter call receives: acreate(model=, messages=) on the OpenAI
\* path, generate_content_async(prompt) with prompt = user_input on the
\* Gemini path.
AdapterRequest(path, model, history, profile, user_input, task_type) ==
    IF path = "gemini"
    THEN [prompt |-> user_input]
    ELSE [model |-> model,
          messages |-> OpenAIMessages(history, profile, user_input, task_type)]

\* What the call returns from dispatch when the adapter call ends: with a
\* response, or with an exception e.
DispatchResult(path, model, task_type, response) ==
    IF path = "gemini" THEN GeminiResult(task_type, response)
    ELSE OpenAIResult(model, task_type, response)

DispatchFailure(path, e) ==
    IF path = "gemini" THEN GeminiFailure(e) ELSE ModelFailure(e)

(***************************************************************************)
(* _apply_personality                                                      *)
(***************************************************************************)
Greetings ==
    << <<"u0633", "u0644", "u0627", "u0645">>,
       <<"h", "e", "l", "l", "o">>,
       <<"h", "i">> >>

friendly_starters ==
    << <<"u0631", "u0627", "u0633", "u062a", "u0634">>,
       <<"u0628", "u0628", "u06cc", "u0646">>,
       <<"u062e", "u0628">>,
       <<"W", "e", "l", "l">>,
       <<"S", "o">> >>

empathy_phrases ==
    << <<"u062f", "u0631", "u06a9", "u062a", " ", "u0645", "u06cc", "u200c",
         "u06a9", "u0646", "u0645">>,
       <<"u062d", "u0633", "u062a", " ", "u0631", "u0648", " ", "u0645",
         "u06cc", "u200c", "u0641", "u0647", "u0645", "u0645">>,
       <<"I", " ", "u", "n", "d", "e", "r", "s", "t", "a", "n", "d", " ",
         "h", "o", "w", " ", "y", "o", "u", " ", "f", "e", "e", "l">>,
       <<"u0627", "u06cc", "u0646", " ", "u0648", "u0627", "u0642", "u0639",
         "u0627", "u064b", " ", "u0633", "u062e", "u062a", "u0647">>,
       <<"Y", "o", "u", "'", "r", "e", " ", "n", "o", "t", " ", "a", "l",
         "o", "n", "e", " ", "i", "n", " ", "t", "h", "i", "s">> >>

\* d with d[key] = value (an assignment to a dict's key, new or not).
Put(d, key, value) ==
    [k \in DOMAIN d \cup {key} |-> IF k = key THEN value ELSE d[k]]

\* any(greeting in content.lower() for greeting in [...])
HasGreeting(content) ==
    \E i \in DOMAIN Greetings : Contains(Greetings[i], Lower(content))

\* A variant that draws an opener whatever the formality of the profile.
OpenerDrawnAnyFormality(result, profile) ==
    ~HasGreeting(result.content)

\* Whether the code reaches each random draw.
OpenerDrawn(result, profile) ==
    /\ profile.formality_level < 50
    /\ ~HasGreeting(result.content)

\* A variant that draws an empathetic phrase for every category.
EmpathyDrawnAnyCategory(task_type, profile) ==
    profile.empathy_level > 80

EmpathyDrawn(task_type, profile) ==
    /\ task_type = PSYCHOLOGICAL_SUPPORT
    /\ profile.empathy_level > 80

\* The outcomes of the random draws of one call: opener is the index of the
\* starter random.choice drew when random.random() < 0.3, else 0; empathy is
\* the index of the phrase drawn when random.random() < 0.4, else 0.  A draw
\* the code does not reach is 0.
Draws(result, task_type, profile) ==
    IF ~Get(result, "success", FALSE) \/ profile = NoneObj
    THEN {[opener |-> 0, empathy |-> 0]}
    ELSE [opener : {0} \cup (IF OpenerDrawn(result, profile)
                              THEN DOMAIN friendly_starters ELSE {}),
          empathy : {0} \cup (IF EmpathyDrawn(task_type, profile)
                               THEN DOMAIN empathy_phrases ELSE {})]

\* A variant that annotates every response once a profile is set, failed or
\* not.
ApplyPersonalityIgnoringSuccess(result, task_type, profile, rnd) ==
    IF profile = NoneObj
    THEN result
    ELSE LET c0 == Get(result, "content", <<>>)
             c1 == IF "content" \in DOMAIN result
                      /\ OpenerDrawn(result, profile) /\ rnd.opener # 0
                   THEN friendly_starters[rnd.opener] \o <<",", " ">> \o c0
                   ELSE c0
             c2 == IF EmpathyDrawn(task_type, profile) /\ rnd.empathy # 0
                   THEN empathy_phrases[rnd.empathy] \o <<".", " ">> \o c1
                   ELSE c1
         IN  Put(Put(Put(result, "content", c2),
                     "personality_applied", TRUE),
                 "personality_name", profile.name)

\* A variant that annotates the response only when a draw altered its text.
ApplyPersonalityWhenAltered(result, task_type, profile, rnd) ==
    IF ~Get(result, "success", FALSE) \/ profile = NoneObj
    THEN result
    ELSE LET c0 == result.content
             c1 == IF OpenerDrawn(result, profile) /\ rnd.opener # 0
                   THEN friendly_starters[rnd.opener] \o <<",", " ">> \o c0
                   ELSE c0
             c2 == IF EmpathyDrawn(task_type, profile) /\ rnd.empathy # 0
                   THEN empathy_phrases[rnd.empathy] \o <<".", " ">> \o c1
                   ELSE c1
         IN  IF c2 = c0
             THEN result
             ELSE Put(Put(Put(result, "content", c2),
                          "personality_applied", TRUE),
                      "personality_name", profile.name)

\* A variant that puts the opener before the empathetic phrase.
ApplyPersonalityOpenerFirst(result, task_type, profile, rnd) ==
    IF ~Get(result, "success", FALSE) \/ profile = NoneObj
    THEN result
    ELSE LET c0 == result.content
             c1 == IF EmpathyDrawn(task_type, profile) /\ rnd.empathy # 0
                   THEN empathy_phrases[rnd.empathy] \o <<".", " ">> \o c0
                   ELSE c0
             c2 == IF OpenerDrawn(result, profile) /\ rnd.opener # 0
                   THEN friendly_starters[rnd.opener] \o <<",", " ">> \o c1
                   ELSE c1
         IN  Put(Put(Put(result, "content", c2),
                     "personality_applied", TRUE),
                 "personality_name", profile.name)

ApplyPersonality(result, task_type, profile, rnd) ==
    IF ~Get(result, "success", FALSE) \/ profile = NoneObj
    THEN result
    ELSE LET c0 == result.content
             c1 == IF OpenerDrawn(result, profile) /\ rnd.opener # 0
                   THEN friendly_starters[rnd.opener] \o <<",", " ">> \o c0
                   ELSE c0
             c2 == IF EmpathyDrawn(task_type, profile) /\ rnd.empathy # 0
                   THEN empathy_phrases[rnd.empathy] \o <<".", " ">> \o c1
                   ELSE c1
         IN  Put(Put(Put(result, "content", c2),
                     "personality_applied", TRUE),
                 "personality_name", profile.name)

(***************************************************************************)
(* _save_to_history                                                        *)
(***************************************************************************)
HistoryLimit == 100

HistoryEntry(now, user_input, response, task_type, model_used) ==
    [timestamp |-> now,
     user_input |-> user_input,
     response |-> response,
     task_type |-> task_type,
     model_used |-> model_used,
     success |-> Get(response, "success", FALSE)]

\* A variant that keeps the first 100 entries instead of the last.
TruncateKeepingOldest(history) ==
    IF Len(history) > HistoryLimit
    THEN SubSeq(history, 1, HistoryLimit)
    ELSE history

\* conversation_history[-100:] once the list is longer than 100
Truncate(history) ==
    IF Len(history) > HistoryLimit
    THEN SubSeq(history, Len(history) - HistoryLimit + 1, Len(history))
    ELSE history

\* A variant that keeps only the successful exchanges.
SaveToHistoryDroppingFailures(history, entry) ==
    IF entry.success THEN Truncate(Append(history, entry)) ELSE history

SaveToHistory(history, entry) == Truncate(Append(history, entry))

(***************************************************************************)
(* The engine's state                                                      *)
(***************************************************************************)
VARIABLES
    settings,              \* config.settings, as _initialize_models reads it
    models,                \* self.models
    personality,           \* self.personality
    conversation_history,  \* self.conversation_history
    calls,                 \* the frames of the process_request coroutines
    clock,                 \* the reading of datetime.now()
    recorded,              \* every entry _save_to_history appended, in order
    direct,                \* the last direct call of a method and its return
    started,               \* the number of process_request calls made
    setups                 \* the number of setup_personality calls made

vars ==
    <<settings, models, personality, conversation_history, calls, clock,
      recorded, direct, started, setups>>

engine == <<models, personality, conversation_history>>

\* The frame of a process_request coroutine: its position, its arguments and
\* its locals (request is what its adapter call was given, exception is the e
\* its dispatch caught); specialty is the key get_specialized_response was
\* called with when the request came through it.
IdleFrame ==
    [pc |-> "Idle",
     specialty |-> None,
     user_input |-> <<>>,
     task_arg |-> None,
     task_type |-> None,
     selected_model |-> None,
     request |-> NoneObj,
     exception |-> NoneObj,
     result |-> NoneObj]

\* A coroutine runs from one await that suspends it to the next without
\* interleaving; the only such await is the adapter call ("Awaiting").
Suspended(frame) == frame.pc \in {"Idle", "Awaiting", "Returned"}

LoopFree == \A c \in DOMAIN calls : Suspended(calls[c])

\* __init__
EngineInit(creds, slots) ==
    /\ settings \in creds
    /\ models = InitializeModels(settings)
    /\ personality = NoneObj
    /\ conversation_history = <<>>
    /\ calls = [c \in 1 .. slots |-> IdleFrame]
    /\ clock = 0
    /\ recorded = <<>>
    /\ direct = NoneObj
    /\ started = 0
    /\ setups = 0

(***************************************************************************)
(* setup_personality                                                       *)
(***************************************************************************)
SetupPersonality(genders, names, personality_types, max_setups) ==
    /\ LoopFree
    /\ setups < max_setups
    /\ \E gender \in genders, name_arg \in names,
          personality_type \in personality_types :
         \E name \in IF name_arg = None \/ name_arg = ""
                     THEN Range(NamePool(gender))
                     ELSE {name_arg} :
            personality' = MakeProfile(gender, name, personality_type)
    /\ setups' = setups + 1
    /\ UNCHANGED <<settings, models, conversation_history, calls, clock,
                   recorded, direct, started>>

(***************************************************************************)
(* process_request, one action per stage                                   *)
(***************************************************************************)
\* The call is made and its coroutine starts running.
Receive(c, texts, task_types, max_requests) ==
    /\ LoopFree
    /\ calls[c].pc \in {"Idle", "Returned"}
    /\ started < max_requests
    /\ \E user_input \in texts, task_arg \in task_types :
         calls' = [calls EXCEPT ![c] =
                     [IdleFrame EXCEPT !.pc = "Received",
                                       !.user_input = user_input,
                                       !.task_arg = task_arg]]
    /\ started' = started + 1
    /\ UNCHANGED <<settings, models, personality, conversation_history,
                   clock, recorded, direct, setups>>

\* A variant that asks the classifier whether or not the caller named a task
\* type.
ClassifyAlways(c) ==
    /\ calls[c].pc = "Received"
    /\ calls' = [calls EXCEPT
                   ![c].pc = "Classified",
                   ![c].task_type = DetectTaskType(calls[c].user_input)]
    /\ UNCHANGED <<settings, models, personality, conversation_history,
                   clock, recorded, direct, started, setups>>

\* if not task_type: task_type = await self._detect_task_type(user_input)
Classify(c) ==
    /\ calls[c].pc = "Received"
    /\ calls' = [calls EXCEPT
                   ![c].pc = "Classified",
                   ![c].task_type =
                       IF calls[c].task_arg = None
                       THEN DetectTaskType(calls[c].user_input)
                       ELSE calls[c].task_arg]
    /\ UNCHANGED <<settings, models, personality, conversation_history,
                   clock, recorded, direct, started, setups>>

\* A variant that learns: it lowers the score of the model it selects.
SelectLearning(c) ==
    /\ calls[c].pc = "Classified"
    /\ LET chosen == SelectBestModel(models, calls[c].task_type)
       IN  /\ calls' = [calls EXCEPT ![c].pc = "Selected",
                                     ![c].selected_model = chosen]
           /\ models' = [i \in DOMAIN models |->
                           IF models[i].model = chosen
                           THEN [models[i] EXCEPT !.performance_score = @ - 1]
                           ELSE models[i]]
    /\ UNCHANGED <<settings, personality, conversation_history,
                   clock, recorded, direct, started, setups>>

\* selected_model = self._select_best_model(task_type)
Select(c) ==
    /\ calls[c].pc = "Classified"
    /\ calls' = [calls EXCEPT
                   ![c].pc = "Selected",
                   ![c].selected_model =
                       SelectBestModel(models, calls[c].task_type)]
    /\ UNCHANGED <<settings, models, personality, conversation_history,
                   clock, recorded, direct, started, setups>>

\* A variant in which a failure before the adapter call ends the request at
\* once, unrecorded.
DispatchEarlyExit(c) ==
    /\ calls[c].pc = "Selected"
    /\ calls' =
         IF AdapterPath(calls[c].selected_model) = "openai"
            /\ ReplayRaises(conversation_history)
         THEN [calls EXCEPT ![c].pc = "Returned",
                            ![c].exception = ContentKeyError,
                            ![c].result = ModelFailure(ContentKeyError)]
         ELSE [calls EXCEPT
                 ![c].pc = "Awaiting",
                 ![c].request =
                     AdapterRequest(AdapterPath(calls[c].selected_model),
                                    AdapterModel(calls[c].selected_model),
                                    conversation_history, personality,
                                    calls[c].user_input, calls[c].task_type)]
    /\ UNCHANGED <<settings, models, personality, conversation_history,
                   clock, recorded, direct, started, setups>>

\* _process_with_model up to the await of the adapter call.  On the OpenAI
\* path the prompt is built first, and the replay of the history may raise;
\* _process_with_model's handler then returns the failure at once.
Dispatch(c) ==
    /\ calls[c].pc = "Selected"
    /\ calls' =
         IF AdapterPath(calls[c].selected_model) = "openai"
            /\ ReplayRaises(conversation_history)
         THEN [calls EXCEPT ![c].pc = "Dispatched",
                            ![c].exception = ContentKeyError,
                            ![c].result = ModelFailure(ContentKeyError)]
         ELSE [calls EXCEPT
                 ![c].pc = "Awaiting",
                 ![c].request =
                     AdapterRequest(AdapterPath(calls[c].selected_model),
                                    AdapterModel(calls[c].selected_model),
                                    conversation_history, personality,
                                    calls[c].user_input, calls[c].task_type)]
    /\ UNCHANGED <<settings, models, personality, conversation_history,
                   clock, recorded, direct, started, setups>>

\* The adapter call ends, with a response or with an exception, and the
\* coroutine resumes.
AdapterReturns(c, responses, errors) ==
    /\ LoopFree
    /\ calls[c].pc = "Awaiting"
    /\ \E o \in {[kind |-> "response", value |-> r] : r \in responses}
                \cup {[kind |-> "raise", value |-> e] : e \in errors} :
         LET path == AdapterPath(calls[c].selected_model)
             model == AdapterModel(calls[c].selected_model)
         IN  calls' =
               IF o.kind = "response"
               THEN [calls EXCEPT
                       ![c].pc = "Dispatched",
                       ![c].result = DispatchResult(path, model,
                                        calls[c].task_type, o.value)]
               ELSE [calls EXCEPT
                       ![c].pc = "Dispatched",
                       ![c].exception = o.value,
                       ![c].result = DispatchFailure(path, o.value)]
    /\ UNCHANGED <<settings, models, personality, conversation_history,
                   clock, recorded, direct, started, setups>>

\* personalized_result = await self._apply_personality(result, task_type)
Personalize(c) ==
    /\ calls[c].pc = "Dispatched"
    /\ \E rnd \in Draws(calls[c].result, calls[c].task_type, personality) :
         calls' = [calls EXCEPT
                     ![c].pc = "Personalized",
                     ![c].result = ApplyPersonality(calls[c].result,
                                      calls[c].task_type, personality, rnd)]
    /\ UNCHANGED <<settings, models, personality, conversation_history,
                   clock, recorded, direct, started, setups>>

\* A variant whose append is lost when another call is waiting for its
\* adapter.
RecordUnlessBusy(c) ==
    /\ calls[c].pc = "Personalized"
    /\ LET entry == HistoryEntry(clock, calls[c].user_input, calls[c].result,
                                 calls[c].task_type, calls[c].selected_model)
       IN  /\ conversation_history' =
                 IF \E d \in DOMAIN calls : calls[d].pc = "Awaiting"
                 THEN conversation_history
                 ELSE SaveToHistory(conversation_history, entry)
           /\ recorded' = Append(recorded, entry)
    /\ clock' = clock + 1
    /\ calls' = [calls EXCEPT ![c].pc = "Recorded"]
    /\ UNCHANGED <<settings, models, personality, direct, started, setups>>

\* self._save_to_history(user_input, personalized_result, task_type,
\*                       selected_model)
Record(c) ==
    /\ calls[c].pc = "Personalized"
    /\ LET entry == HistoryEntry(clock, calls[c].user_input, calls[c].result,
                                 calls[c].task_type, calls[c].selected_model)
       IN  /\ conversation_history' = SaveToHistory(conversation_history, entry)
           /\ recorded' = Append(recorded, entry)
    /\ clock' = clock + 1
    /\ calls' = [calls EXCEPT ![c].pc = "Recorded"]
    /\ UNCHANGED <<settings, models, personality, direct, started, setups>>

\* return personalized_result
Return(c) ==
    /\ calls[c].pc = "Recorded"
    /\ calls' = [calls EXCEPT ![c].pc = "Returned"]
    /\ UNCHANGED <<settings, models, personality, conversation_history,
                   clock, recorded, direct, started, setups>>

(***************************************************************************)
(* Direct calls of the engine's methods, as the unit tests make them: the  *)
(* call's arguments and its return value are kept in direct.               *)
(***************************************************************************)
\* await engine._detect_task_type(user_input); task_scores is the method's
\* local of that name when it returns.
DetectTaskTypeCall(texts) ==
    /\ LoopFree
    /\ direct = NoneObj
    /\ \E user_input \in texts :
         direct' = [method |-> "_detect_task_type",
                    user_input |-> user_input,
                    task_scores |-> TaskScores(user_input),
                    returned |-> DetectTaskType(user_input)]
    /\ UNCHANGED <<settings, models, personality, conversation_history,
                   calls, clock, recorded, started, setups>>

\* engine._select_best_model(task_type)
SelectBestModelCall(task_types) ==
    /\ LoopFree
    /\ direct = NoneObj
    /\ \E task_type \in task_types :
         direct' = [method |-> "_select_best_model",
                    task_type |-> task_type,
                    returned |-> SelectBestModel(models, task_type)]
    /\ UNCHANGED <<settings, models, personality, conversation_history,
                   calls, clock, recorded, started, setups>>

(***************************************************************************)
(* Spec: the engine under every credential configuration, with a profile   *)
(* that may be set between any two steps of the event loop, and at most    *)
(* MaxInFlight calls in flight, MaxRequests calls in all.                   *)
(***************************************************************************)
MaxRequests == 2
MaxSetups == 1
MaxInFlight == 1

\* "stock" (financial_advice) and "story" (creative_writing).
UserTexts ==
    { <<"s", "t", "o", "c", "k">>,
      <<"s", "t", "o", "r", "y">> }

TaskArgs == {None, TRANSLATION}

Responses == { [content |-> <<"o", "k">>, usage |-> 10] }

\* What the adapter call may raise; an exception carries a message.
AdapterErrors ==
    { [type |-> "Timeout", arg |-> <<"t", "i", "m", "e", "d", " ", "o", "u", "t">>] }

Init == EngineInit(Settings, MaxInFlight)

Next ==
    \/ SetupPersonality({"male"}, {"Robert"}, {"professional"}, MaxSetups)
    \/ \E c \in DOMAIN calls : Receive(c, UserTexts, TaskArgs, MaxRequests)
    \/ \E c \in DOMAIN calls : Classify(c)
    \/ \E c \in DOMAIN calls : Select(c)
    \/ \E c \in DOMAIN calls : Dispatch(c)
    \/ \E c \in DOMAIN calls : AdapterReturns(c, Responses, AdapterErrors)
    \/ \E c \in DOMAIN calls : Personalize(c)
    \/ \E c \in DOMAIN calls : Record(c)
    \/ \E c \in DOMAIN calls : Return(c)

Spec == Init /\ [][Next]_vars

(***************************************************************************)
(* Properties of process_request                                           *)
(***************************************************************************)
\* The stages a call has reached once its dispatch has ended.
AfterDispatch == {"Dispatched", "Personalized", "Recorded", "Returned"}

\* The calls whose dispatch caught an exception.
Raised(c) == calls[c].exception # NoneObj

\* The last entry of the conversation history is the entry of call c.
LastEntryOf(c) ==
    /\ conversation_history # <<>>
    /\ LET entry == conversation_history[Len(conversation_history)]
       IN  /\ entry.user_input = calls[c].user_input
           /\ entry.response = calls[c].result
           /\ entry.task_type = calls[c].task_type
           /\ entry.success = Get(calls[c].result, "success", FALSE)

StageOrder ==
    { <<"Idle", "Received">>, <<"Returned", "Received">>,
      <<"Received", "Classified">>, <<"Classified", "Selected">>,
      <<"Selected", "Awaiting">>, <<"Selected", "Dispatched">>,
      <<"Awaiting", "Dispatched">>, <<"Dispatched", "Personalized">>,
      <<"Personalized", "Recorded">>, <<"Recorded", "Returned">> }

\* The calls that have been received and have not reached Recorded.
Unrecorded ==
    {c \in DOMAIN calls :
        calls[c].pc \in {"Received", "Classified", "Selected", "Awaiting",
                         "Dispatched", "Personalized"}}

\* C3: every process_request call passes through Classified, Selected,
\* Dispatched, Personalized, Recorded, Returned in that order with no early
\* exit, whether dispatch succeeds or fails; each call appends exactly one
\* entry to the history (before eviction), and only after personalization.
C3_StagesInOrder ==
    /\ [](Len(recorded) + Cardinality(Unrecorded) = started)
    /\ [][/\ \A c \in DOMAIN calls :
               /\ calls'[c].pc # calls[c].pc =>
                      <<calls[c].pc, calls'[c].pc>> \in StageOrder
               /\ calls[c].pc = "Personalized" /\ calls'[c].pc = "Recorded" =>
                      /\ Len(recorded') = Len(recorded) + 1
                      /\ recorded'[Len(recorded')].response = calls[c].result
                      /\ recorded'[Len(recorded')].user_input = calls[c].user_input
                      /\ calls'[c].result = calls[c].result
          /\ recorded' # recorded =>
               \E c \in DOMAIN calls :
                   calls[c].pc = "Personalized" /\ calls'[c].pc = "Recorded"
         ]_vars

C3_Witness ==
    /\ Len(recorded) = 2
    /\ \E c \in DOMAIN calls :
          calls[c].pc = "Returned" /\ calls[c].result.success = FALSE
    /\ recorded[1].success

\* C4 (as claimed): on every adapter path a failure of the adapter call
\* becomes a record {success: false, error, fallback_response} with an error
\* message and the apology.
C4_FailureRecordShape ==
    \A c \in DOMAIN calls :
        Raised(c) /\ calls[c].pc \in AfterDispatch =>
            /\ calls[c].result.success = FALSE
            /\ "error" \in DOMAIN calls[c].result
            /\ "fallback_response" \in DOMAIN calls[c].result
            /\ calls[c].result.fallback_response = FALLBACK_RESPONSE

\* The models of the registry.
ModelsOf(registry) == {registry[i].model : i \in DOMAIN registry}

InfoOf(registry, model) ==
    registry[CHOOSE i \in DOMAIN registry : registry[i].model = model]

NoSpecialist(registry, task_type) ==
    ~\E i \in DOMAIN registry :
        registry[i].available /\ task_type \in registry[i].specialties

Selected(c) == calls[c].selected_model # None

\* C8 (as claimed): when no model is both available and specialised in the
\* category, select returns GPT-3.5-turbo.
C8_DefaultIsGPT35 ==
    \A c \in DOMAIN calls :
        Selected(c) /\ NoSpecialist(models, calls[c].task_type) =>
            calls[c].selected_model = GPT35_TURBO

C10_PersonalizeNoOp ==
    [][\A c \in DOMAIN calls :
          /\ calls[c].pc = "Dispatched"
          /\ calls'[c].pc = "Personalized"
          /\ (~Get(calls[c].result, "success", FALSE) \/ personality = NoneObj)
          => calls'[c].result = calls[c].result]_vars

C10_Witness ==
    /\ \E c \in DOMAIN calls :
          /\ calls[c].pc = "Personalized"
          /\ calls[c].result.success = FALSE
          /\ "personality_applied" \notin DOMAIN calls[c].result
    /\ personality # NoneObj
    /\ \E i \in DOMAIN recorded :
          recorded[i].success /\ "personality_applied" \notin DOMAIN recorded[i].response

(***************************************************************************)
(* SpecHistory: one engine with an OpenAI key serving requests one after   *)
(* the other, long enough to fill the history and evict from it.           *)
(***************************************************************************)
HistoryRequests == 150

InitHistory ==
    EngineInit({[openai_api_key |-> TRUE, google_api_key |-> FALSE]}, 1)

NextHistory ==
    \/ Receive(1, { <<"h", "i">> }, {None}, HistoryRequests)
    \/ Classify(1)
    \/ Select(1)
    \/ Dispatch(1)
    \/ AdapterReturns(1, Responses, AdapterErrors)
    \/ Personalize(1)
    \/ Record(1)
    \/ Return(1)

SpecHistory == InitHistory /\ [][NextHistory]_vars

\* The last n elements of a list.
LastN(s, n) == SubSeq(s, Len(s) - n + 1, Len(s))

\* C1: the conversation history never holds more than 100 entries, and it is
\* the most recent min(n, 100) of the n entries recorded so far, in their
\* order; after 150 appends it is the last 100.
C1_HistoryBound ==
    /\ Len(conversation_history) <= 100
    /\ conversation_history =
           LastN(recorded, IF Len(recorded) < 100 THEN Len(recorded) ELSE 100)
    /\ Len(recorded) = 150 =>
           /\ Len(conversation_history) = 100
           /\ \A i \in 1 .. 100 : conversation_history[i] = recorded[50 + i]

C1_Witness ==
    /\ Len(recorded) = 150
    /\ Len(conversation_history) = 100
    /\ conversation_history[1] = recorded[51]
    /\ conversation_history[1] # recorded[1]
    /\ conversation_history[100] = recorded[150]

(***************************************************************************)
(* SpecClassify: _detect_task_type called on the texts of up to            *)
(* MaxWords words of Vocabulary, on an engine with or without a profile.   *)
(***************************************************************************)
MaxWords == 3

\* "stock", "Bitcoin", "sad", "research" (which also holds "search"), "hi",
\* U+0633 U+0647 U+0627 U+0645 (the first financial keyword) and "translate".
Vocabulary ==
    { <<"s", "t", "o", "c", "k">>,
      <<"B", "i", "t", "c", "o", "i", "n">>,
      <<"s", "a", "d">>,
      <<"r", "e", "s", "e", "a", "r", "c", "h">>,
      <<"h", "i">>,
      <<"u0633", "u0647", "u0627", "u0645">>,
      <<"t", "r", "a", "n", "s", "l", "a", "t", "e">> }

\* The texts of at most n words, the words separated by one space.
RECURSIVE TextsOfWords(_)
TextsOfWords(n) ==
    IF n = 0
    THEN { <<>> }
    ELSE LET shorter == TextsOfWords(n - 1)
         IN  shorter \cup
             {IF t = <<>> THEN w ELSE t \o <<" ">> \o w :
                 t \in shorter, w \in Vocabulary}

InitClassify ==
    EngineInit({[openai_api_key |-> TRUE, google_api_key |-> FALSE]}, 1)

NextClassify ==
    \/ DetectTaskTypeCall(TextsOfWords(MaxWords))
    \/ SetupPersonality({"female"}, {"Nila"}, {"friendly"}, MaxSetups)

SpecClassify == InitClassify /\ [][NextClassify]_vars

\* The categories that have trigger phrases, and the trigger phrases of one.
KeywordCategories == {task_keywords[i].task : i \in DOMAIN task_keywords}

TriggerPhrases(category) ==
    Range(task_keywords[CHOOSE i \in DOMAIN task_keywords :
                            task_keywords[i].task = category].keywords)

\* For each category, the number of its trigger phrases that occur in a text,
\* the case of the text's letters ignored.
PhraseCounts(text) ==
    LET lowered == Lower(text)
    IN  [category \in KeywordCategories |->
            Cardinality({phrase \in TriggerPhrases(category) :
                            Contains(phrase, lowered)})]

PhraseCount(category, text) == PhraseCounts(text)[category]

Triggered(text) ==
    LET count == PhraseCounts(text)
    IN  {category \in KeywordCategories : count[category] > 0}

Detected == direct # NoneObj /\ direct.method = "_detect_task_type"

\* C5: classify returns a category of the highest trigger-phrase score: the
\* category of the input's trigger phrases when they are all of one
\* category, and the one with the higher count when they are of two
\* categories with different counts.
C5_HighestScoreWins ==
    Detected =>
        LET count == PhraseCounts(direct.user_input)
            hit == {category \in KeywordCategories : count[category] > 0}
        IN  /\ Cardinality(hit) = 1 => direct.returned \in hit
            /\ hit # {} =>
                   /\ direct.returned \in hit
                   /\ \A category \in hit :
                          count[category] <= count[direct.returned]
            /\ \A a, b \in hit :
                   hit = {a, b} /\ count[a] > count[b] => direct.returned = a

\* "stock research": one financial phrase, two research phrases.
C5_Witness ==
    /\ Detected
    /\ PhraseCount(FINANCIAL_ADVICE, direct.user_input) = 1
    /\ PhraseCount(RESEARCH, direct.user_input) = 2
    /\ Triggered(direct.user_input) = {FINANCIAL_ADVICE, RESEARCH}
    /\ direct.returned = RESEARCH

\* C6: classify returns conversation for every input in which no category
\* scores above zero, the empty string included; it returns exactly one
\* category, and it leaves the engine's state as it was.
C6_DefaultCategory ==
    /\ [](Detected =>
            /\ direct.returned \in TaskType
            /\ Triggered(direct.user_input) = {} =>
                   direct.returned = CONVERSATION)
    /\ [][direct' # direct =>
            UNCHANGED <<settings, models, personality, conversation_history,
                        calls, clock, recorded>>]_vars

C6_Witness ==
    /\ Detected
    /\ direct.user_input = <<>>
    /\ direct.returned = CONVERSATION
    /\ personality # NoneObj

(***************************************************************************)
(* SpecSelect: _select_best_model called on the registries of at most      *)
(* MaxAdapters models, whatever their flags, specialties and scores.       *)
(***************************************************************************)
MaxAdapters == 2

\* The entries a registry may hold.
AdapterInfos ==
    [model : {GPT4, GPT35_TURBO, GEMINI_PRO, LLAMA2},
     client : {None},
     available : BOOLEAN,
     specialties : {{CONVERSATION}, {CREATIVE_WRITING},
                    {CONVERSATION, CREATIVE_WRITING}},
     performance_score : {85, 95}]

\* The registries of exactly n models: a dict has each key once.
RegistriesOfSize(n) ==
    {registry \in [1 .. n -> AdapterInfos] :
        \A i, j \in 1 .. n : i < j => registry[i].model # registry[j].model}

Registries == UNION {RegistriesOfSize(n) : n \in 1 .. MaxAdapters}

\* The registry is the one _initialize_models built, or any registry put in
\* its place.
InitSelect ==
    /\ settings \in Settings
    /\ models \in {InitializeModels(settings)} \cup
                  (IF settings.openai_api_key \/ settings.google_api_key
                   THEN {} ELSE Registries)
    /\ personality = NoneObj
    /\ conversation_history = <<>>
    /\ calls = [c \in 1 .. 1 |-> IdleFrame]
    /\ clock = 0
    /\ recorded = <<>>
    /\ direct = NoneObj
    /\ started = 0
    /\ setups = 0

NextSelect ==
    SelectBestModelCall({CONVERSATION, CREATIVE_WRITING, RESEARCH,
                         CONTENT_GENERATION})

SpecSelect == InitSelect /\ [][NextSelect]_vars

SelectedDirectly == direct # NoneObj /\ direct.method = "_select_best_model"

\* The places in the registry of the available models specialised in a
\* category.
Specialists(registry, task_type) ==
    {i \in DOMAIN registry :
        registry[i].available /\ task_type \in registry[i].specialties}

\* C7: when the registry has an available model that lists category C,
\* select(C) returns an available model that lists C, one with the highest
\* performance score among them, and the first-registered of those.
C7_BestSpecialist ==
    SelectedDirectly /\ Specialists(models, direct.task_type) # {} =>
        \E i \in Specialists(models, direct.task_type) :
            /\ models[i].model = direct.returned
            /\ models[i].available
            /\ direct.task_type \in models[i].specialties
            /\ \A j \in Specialists(models, direct.task_type) :
                  /\ models[j].performance_score <= models[i].performance_score
                  /\ models[j].performance_score = models[i].performance_score
                     => i <= j

\* Two available specialists with the same score: the first is returned.
C7_Witness ==
    /\ SelectedDirectly
    /\ Len(models) = 2
    /\ Specialists(models, direct.task_type) = {1, 2}
    /\ models[1].performance_score = models[2].performance_score
    /\ direct.returned = models[1].model

(***************************************************************************)
(* SpecPersonality: requests of every category, with both credentials set, *)
(* while the profile is set between any two steps of the event loop (also  *)
(* while a call waits for its adapter).                                    *)
(***************************************************************************)
PersonaRequests == 1
PersonaSetups == 1

PersonaTexts == { <<"h", "e", "l", "p">> }

\* A reply that greets, one that holds a greeting inside a word ("this") and
\* one that holds none.
PersonaResponses ==
    { [content |-> <<"H", "i", " ", "t", "h", "e", "r", "e">>, usage |-> 7],
      [content |-> <<"t", "h", "i", "s">>, usage |-> 4],
      [content |-> <<"o", "k">>, usage |-> 10] }

PersonaNames == {"Sara"}

PersonaTypes == {"friendly", "professional", "companion"}

InitPersonality ==
    EngineInit({[openai_api_key |-> TRUE, google_api_key |-> TRUE]}, 1)

NextPersonality ==
    \/ SetupPersonality({"female"}, PersonaNames, PersonaTypes, PersonaSetups)
    \/ Receive(1, PersonaTexts, TaskType, PersonaRequests)
    \/ Classify(1)
    \/ Select(1)
    \/ Dispatch(1)
    \/ AdapterReturns(1, PersonaResponses, AdapterErrors)
    \/ Personalize(1)
    \/ Record(1)
    \/ Return(1)

SpecPersonality == InitPersonality /\ [][NextPersonality]_vars

\* C11: every successful response personalized while a profile is set
\* carries personality_applied = true and personality_name = the name of the
\* active profile, for every category and every outcome of the draws, also
\* when the text is not altered; the call returns that record.
C11_AlwaysAnnotated ==
    [][\A c \in DOMAIN calls :
          /\ /\ calls[c].pc = "Dispatched"
             /\ calls'[c].pc = "Personalized"
             /\ Get(calls[c].result, "success", FALSE)
             /\ personality # NoneObj
             => /\ "personality_applied" \in DOMAIN calls'[c].result
                /\ calls'[c].result.personality_applied = TRUE
                /\ "personality_name" \in DOMAIN calls'[c].result
                /\ calls'[c].result.personality_name = personality.name
          /\ calls[c].pc \in {"Personalized", "Recorded"}
             => calls'[c].result = calls[c].result]_vars

\* A supportive reply that no draw altered, annotated all the same.
C11_Witness ==
    \E c \in DOMAIN calls :
        /\ calls[c].pc = "Returned"
        /\ calls[c].task_type = PSYCHOLOGICAL_SUPPORT
        /\ calls[c].result.success
        /\ calls[c].result.content = <<"o", "k">>
        /\ "personality_applied" \in DOMAIN calls[c].result
        /\ calls[c].result.personality_applied
        /\ personality # NoneObj
        /\ personality.empathy_level > 80
        /\ calls[c].result.personality_name = personality.name

(***************************************************************************)
(* The task category of a request (Spec)                                   *)
(***************************************************************************)
\* The category the request is to be handled under: the caller's task type
\* when one is given, what the classifier says of the text otherwise.
CategoryOf(c) ==
    IF calls[c].task_arg # None
    THEN calls[c].task_arg
    ELSE DetectTaskType(calls[c].user_input)

\* C12: the category used for selection, reported in a successful result and
\* recorded in the history entry is the caller's explicit task type when one
\* is given, and the classifier's result for the text otherwise; when an
\* available model is specialised in that category, the request is routed to
\* such a model of the highest score.
C12_CategoryUsed ==
    \A c \in DOMAIN calls :
        LET category == CategoryOf(c)
        IN  /\ calls[c].pc \notin {"Idle", "Received"} =>
                   calls[c].task_type = category
            /\ Selected(c) =>
                   /\ calls[c].selected_model = SelectBestModel(models, category)
                   /\ Specialists(models, category) # {} =>
                         \E i \in Specialists(models, category) :
                             /\ models[i].model = calls[c].selected_model
                             /\ \A j \in Specialists(models, category) :
                                   models[j].performance_score
                                       <= models[i].performance_score
            /\ calls[c].pc \in AfterDispatch /\ calls[c].result.success =>
                   calls[c].result.task_type = category
            /\ calls[c].pc = "Recorded" =>
                   /\ recorded[Len(recorded)].user_input = calls[c].user_input
                   /\ recorded[Len(recorded)].task_type = category
                   /\ recorded[Len(recorded)].model_used = calls[c].selected_model
            /\ calls[c].pc = "Returned" =>
                   \E i \in DOMAIN recorded :
                       /\ recorded[i].user_input = calls[c].user_input
                       /\ recorded[i].response = calls[c].result
                       /\ recorded[i].task_type = category
                       /\ recorded[i].model_used = calls[c].selected_model

\* A text the classifier files under financial_advice, sent as a translation
\* and handled as one; and an unclassified financial question, recorded
\* under financial_advice.
C12_Witness ==
    /\ Len(recorded) = 2
    /\ recorded[1].user_input = <<"s", "t", "o", "c", "k">>
    /\ recorded[1].task_type = TRANSLATION
    /\ recorded[1].model_used = GPT35_TURBO
    /\ recorded[1].success
    /\ recorded[1].response.task_type = TRANSLATION
    /\ recorded[2].user_input = <<"s", "t", "o", "c", "k">>
    /\ recorded[2].task_type = FINANCIAL_ADVICE
    /\ \E c \in DOMAIN calls :
          calls[c].pc = "Returned" /\ calls[c].task_arg = None

(***************************************************************************)
(* get_conversation_stats                                                  *)
(***************************************************************************)
\* A variant of the counting loop that never increments a key it has seen.
TallyWithoutIncrement(keys) ==
    LET first == {i \in DOMAIN keys : \A j \in 1 .. i - 1 : keys[j] # keys[i]}
        F[n \in 0 .. Len(keys)] ==
            IF n = 0 THEN <<>>
            ELSE IF n \in first
                 THEN Append(F[n - 1], [key |-> keys[n], count |-> 1])
                 ELSE F[n - 1]
    IN  F[Len(keys)]

\* The dict the loop builds with d[k] = d.get(k, 0) + 1 over keys, as the
\* sequence of its items in insertion order.
Tally(keys) ==
    LET F[n \in 0 .. Len(keys)] ==
            IF n = 0 THEN <<>>
            ELSE LET d == F[n - 1]
                     at == {i \in DOMAIN d : d[i].key = keys[n]}
                 IN  IF at = {}
                     THEN Append(d, [key |-> keys[n], count |-> 1])
                     ELSE [i \in DOMAIN d |->
                             IF i \in at
                             THEN [d[i] EXCEPT !.count = @ + 1]
                             ELSE d[i]]
    IN  F[Len(keys)]

\* A variant that keeps the last key of the greatest count.
MostUsedLast(d) == d[PyMaxIndexLast([i \in DOMAIN d |-> d[i].count])].key

\* max(d, key=d.get): the first key of the greatest count.
MostUsed(d) == d[PyMaxIndex([i \in DOMAIN d |-> d[i].count])].key

\* The number of entries the loop counts as successful.
SuccessCount(history) ==
    Cardinality({i \in DOMAIN history : history[i].success})

Digits == <<"0", "1", "2", "3", "4", "5", "6", "7", "8", "9">>

\* str(n) of a natural number.
RECURSIVE Decimal(_)
Decimal(n) ==
    IF n < 10 THEN <<Digits[n + 1]>>
    ELSE Decimal(n \div 10) \o <<Digits[(n % 10) + 1]>>

\* f"{count / n * 100:.1f}%": the percentage rounded to one decimal place
\* (half to even), then the percent sign.
FormatSuccessRate(count, n) ==
    LET q == (1000 * count) \div n
        r == (1000 * count) % n
        tenths == IF 2 * r > n \/ (2 * r = n /\ q % 2 = 1) THEN q + 1 ELSE q
    IN  Decimal(tenths \div 10) \o <<".", Digits[(tenths % 10) + 1], "%">>

ConversationStats(history) ==
    IF history = <<>>
    THEN [total_conversations |-> 0]
    ELSE LET task_counts == Tally([i \in DOMAIN history |-> history[i].task_type])
             model_usage == Tally([i \in DOMAIN history |-> history[i].model_used])
         IN  [total_conversations |-> Len(history),
              task_distribution |-> task_counts,
              model_usage |-> model_usage,
              success_rate |-> FormatSuccessRate(SuccessCount(history),
                                                 Len(history)),
              most_used_task |-> MostUsed(task_counts),
              most_used_model |-> MostUsed(model_usage)]

\* engine.get_conversation_stats()
GetConversationStatsCall ==
    /\ LoopFree
    /\ direct = NoneObj
    /\ direct' = [method |-> "get_conversation_stats",
                  history |-> conversation_history,
                  returned |-> ConversationStats(conversation_history)]
    /\ UNCHANGED <<settings, models, personality, conversation_history,
                   calls, clock, recorded, started, setups>>

(***************************************************************************)
(* SpecStats: sequential requests of several categories on both adapter    *)
(* paths, succeeding and failing, and one call of get_conversation_stats   *)
(* at any point between them.                                              *)
(***************************************************************************)
StatsRequests == 3

\* "hi" (conversation) and "story" (creative_writing).
StatsTexts == { <<"h", "i">>, <<"s", "t", "o", "r", "y">> }

InitStats ==
    EngineInit({[openai_api_key |-> TRUE, google_api_key |-> TRUE]}, 1)

NextStats ==
    \/ Receive(1, StatsTexts, TaskArgs, StatsRequests)
    \/ Classify(1)
    \/ Select(1)
    \/ Dispatch(1)
    \/ AdapterReturns(1, Responses, AdapterErrors)
    \/ Personalize(1)
    \/ Record(1)
    \/ Return(1)
    \/ GetConversationStatsCall

SpecStats == InitStats /\ [][NextStats]_vars

StatsCalled == direct # NoneObj /\ direct.method = "get_conversation_stats"

\* The sum of the counts of a tally.
RECURSIVE SumCounts(_)
SumCounts(d) ==
    IF d = <<>> THEN 0 ELSE Head(d).count + SumCounts(Tail(d))

\* The tally d counts key k exactly n times (not at all when n = 0).
Counts(d, k, n) ==
    Cardinality({i \in DOMAIN d : d[i].key = k}) = (IF n = 0 THEN 0 ELSE 1)
    /\ \A i \in DOMAIN d : d[i].key = k => d[i].count = n

\* C13 (as claimed): the figure the stats report for success is the number
\* of entries with success = true.
C13_SuccessCount ==
    StatsCalled /\ direct.history # <<>> =>
        direct.returned.success_rate = Decimal(SuccessCount(direct.history))

\* C13 (amended): get_conversation_stats reports total_conversations = the
\* length of the history; on an empty history nothing else (no mode);
\* otherwise per-category and per-adapter counts that are the numbers of
\* entries of each category and adapter and sum to the total, and a success
\* rate that is the percentage of entries with success = true to one decimal
\* place, followed by "%".
C13_StatsCounts ==
    StatsCalled =>
        LET history == direct.history
            stats == direct.returned
            n == Len(history)
        IN  /\ stats.total_conversations = n
            /\ n = 0 => DOMAIN stats = {"total_conversations"}
            /\ n > 0 =>
                 /\ SumCounts(stats.task_distribution) = n
                 /\ SumCounts(stats.model_usage) = n
                 /\ \A k \in TaskType :
                       Counts(stats.task_distribution, k,
                              Cardinality({i \in DOMAIN history :
                                              history[i].task_type = k}))
                 /\ \A k \in AIModel :
                       Counts(stats.model_usage, k,
                              Cardinality({i \in DOMAIN history :
                                              history[i].model_used = k}))
                 /\ \E t \in 0 .. 1000 :
                       /\ stats.success_rate =
                              Decimal(t \div 10)
                              \o <<".", Digits[(t % 10) + 1], "%">>
                       /\ 2 * (t * n - 1000 * SuccessCount(history)) <= n
                       /\ 2 * (1000 * SuccessCount(history) - t * n) <= n

\* Two sequential requests of distinct categories, then the stats: total 2,
\* each category counted once; and the stats of the empty history.
C13_Witness ==
    /\ StatsCalled
    /\ Len(direct.history) = 2
    /\ direct.history[1].task_type = CONVERSATION
    /\ direct.history[2].task_type = CREATIVE_WRITING
    /\ direct.returned.total_conversations = 2
    /\ direct.returned.task_distribution =
           << [key |-> CONVERSATION, count |-> 1],
              [key |-> CREATIVE_WRITING, count |-> 1] >>
    /\ direct.returned.success_rate = <<"5", "0", ".", "0", "%">>

(***************************************************************************)
(* SpecConcurrent: several process_request coroutines on one event loop,   *)
(* interleaving where they wait for their adapters, for long enough that   *)
(* the history is truncated.                                               *)
(***************************************************************************)
ConcurrentCalls == 2
ConcurrentRequests == 102

InitConcurrent ==
    EngineInit({[openai_api_key |-> TRUE, google_api_key |-> FALSE]},
               ConcurrentCalls)

NextConcurrent ==
    \/ \E c \in DOMAIN calls :
          Receive(c, { <<"h", "i">> }, {None}, ConcurrentRequests)
    \/ \E c \in DOMAIN calls : Classify(c)
    \/ \E c \in DOMAIN calls : Select(c)
    \/ \E c \in DOMAIN calls : Dispatch(c)
    \/ \E c \in DOMAIN calls : AdapterReturns(c, Responses, {})
    \/ \E c \in DOMAIN calls : Personalize(c)
    \/ \E c \in DOMAIN calls : Record(c)
    \/ \E c \in DOMAIN calls : Return(c)

SpecConcurrent == InitConcurrent /\ [][NextConcurrent]_vars

\* The calls that are running on the event loop (neither waiting for an
\* adapter nor finished).
Running == {c \in DOMAIN calls : ~Suspended(calls[c])}

\* C14: with several process_request calls interleaving at their awaits, the
\* appends to the history are serialised (at most one call runs between two
\* awaits, and a step that changes the history appends the one entry of the
\* call that records), no entry is lost or duplicated (the entries appended
\* and the calls not yet recorded add up to the calls made, and the history
\* is the last 100 of the entries appended, in order), and the history never
\* holds more than 100 entries.
C14_AppendsSerialised ==
    /\ [](/\ Len(conversation_history) <= HistoryLimit
          /\ Cardinality(Running) <= 1
          /\ Len(recorded) + Cardinality(Unrecorded) = started
          /\ \A i \in DOMAIN recorded : recorded[i].timestamp = i - 1
          /\ conversation_history =
                 LastN(recorded, IF Len(recorded) > HistoryLimit
                                 THEN HistoryLimit ELSE Len(recorded)))
    /\ [][conversation_history' # conversation_history =>
            \E c \in DOMAIN calls :
                /\ calls[c].pc = "Personalized"
                /\ calls'[c].pc = "Recorded"
                /\ \A d \in DOMAIN calls \ {c} : calls'[d] = calls[d]
                /\ recorded' = Append(recorded, recorded'[Len(recorded')])
                /\ recorded'[Len(recorded')].response = calls[c].result
                /\ conversation_history' =
                       Truncate(Append(conversation_history,
                                       recorded'[Len(recorded')]))]_vars

\* A call records its entry into a full history while another call, made
\* earlier, still waits for its adapter.
C14_Witness ==
    /\ Len(recorded) > HistoryLimit
    /\ Len(conversation_history) = HistoryLimit
    /\ calls[1].pc = "Awaiting"
    /\ calls[2].pc = "Recorded"
    /\ Len(calls[1].request.messages) < Len(calls[2].request.messages)

(***************************************************************************)
(* SpecOverlap: one request on the OpenAI path and setup_personality calls *)
(* made before it, after it and while it waits for its adapter.            *)
(***************************************************************************)
OverlapRequests == 1
OverlapSetups == 2

InitOverlap ==
    EngineInit({[openai_api_key |-> TRUE, google_api_key |-> FALSE]}, 1)

NextOverlap ==
    \/ SetupPersonality({"female"}, {"Sara", "Mina"},
                        {"friendly", "professional"}, OverlapSetups)
    \/ Receive(1, PersonaTexts, {None, PSYCHOLOGICAL_SUPPORT}, OverlapRequests)
    \/ Classify(1)
    \/ Select(1)
    \/ Dispatch(1)
    \/ AdapterReturns(1, PersonaResponses, AdapterErrors)
    \/ Personalize(1)
    \/ Record(1)
    \/ Return(1)

SpecOverlap == InitOverlap /\ [][NextOverlap]_vars

\* The personality_info in the system message of the call's adapter request.
PromptProfile(c) == calls[c].request.messages[1].content.personality_info

\* C15 (as claimed): the profile folded into the dispatch prompt of a request
\* and the profile its result names are the same profile: the result names
\* the profile of the prompt, and names none when the prompt has none.
C15_OneProfilePerRequest ==
    \A c \in DOMAIN calls :
        /\ calls[c].pc \in {"Personalized", "Recorded", "Returned"}
        /\ calls[c].request # NoneObj
        /\ "messages" \in DOMAIN calls[c].request
        /\ calls[c].result.success
        => IF "personality_name" \in DOMAIN calls[c].result
           THEN /\ PromptProfile(c) # NoneObj
                /\ PromptProfile(c).name = calls[c].result.personality_name
           ELSE PromptProfile(c) = NoneObj

(***************************************************************************)
(* get_specialized_response                                                *)
(***************************************************************************)
\* specialty_configs; a system_prompt is written as a label (the method never
\* reads it).
specialty_configs ==
    [financial_advisor |->
        [task_type |-> FINANCIAL_ADVICE, system_prompt |-> "fa:financial advisor"],
     therapist |->
        [task_type |-> PSYCHOLOGICAL_SUPPORT, system_prompt |-> "fa:therapist"],
     creative_writer |->
        [task_type |-> CREATIVE_WRITING, system_prompt |-> "fa:creative writer"],
     meditation_guide |->
        [task_type |-> MEDITATION, system_prompt |-> "fa:meditation guide"]]

SpecialtyNotFound ==
    [success |-> FALSE,
     error |-> <<"S", "p", "e", "c", "i", "a", "l", "t", "y", " ", "n", "o",
                 "t", " ", "f", "o", "u", "n", "d">>]

\* A variant that handles an unknown specialty as a plain process_request.
GetSpecializedResponseLenient(c, specialties, queries, max_requests) ==
    /\ LoopFree
    /\ calls[c].pc \in {"Idle", "Returned"}
    /\ started < max_requests
    /\ \E specialty \in specialties, query \in queries :
         LET config == Get(specialty_configs, specialty, NoneObj)
         IN  calls' = [calls EXCEPT ![c] =
                         [IdleFrame EXCEPT
                            !.pc = "Received",
                            !.specialty = specialty,
                            !.user_input = query,
                            !.task_arg = IF config = NoneObj THEN None
                                         ELSE config.task_type]]
    /\ started' = started + 1
    /\ UNCHANGED <<settings, models, personality, conversation_history,
                   clock, recorded, direct, setups>>

\* The call is made: with an unknown specialty it returns at once; otherwise
\* it is process_request(query, config["task_type"], additional_context).
GetSpecializedResponse(c, specialties, queries, max_requests) ==
    /\ LoopFree
    /\ calls[c].pc \in {"Idle", "Returned"}
    /\ started < max_requests
    /\ \E specialty \in specialties, query \in queries :
         LET config == Get(specialty_configs, specialty, NoneObj)
         IN  IF config = NoneObj
             THEN /\ calls' = [calls EXCEPT ![c] =
                                 [IdleFrame EXCEPT
                                    !.pc = "Returned",
                                    !.specialty = specialty,
                                    !.user_input = query,
                                    !.result = SpecialtyNotFound]]
                  /\ started' = started
             ELSE /\ calls' = [calls EXCEPT ![c] =
                                 [IdleFrame EXCEPT
                                    !.pc = "Received",
                                    !.specialty = specialty,
                                    !.user_input = query,
                                    !.task_arg = config.task_type]]
                  /\ started' = started + 1
    /\ UNCHANGED <<settings, models, personality, conversation_history,
                   clock, recorded, direct, setups>>

(***************************************************************************)
(* SpecSpecialty: get_specialized_response with known and unknown keys,    *)
(* with both credentials set.                                              *)
(***************************************************************************)
SpecialtyRequests == 2

Specialties ==
    {"financial_advisor", "therapist", "creative_writer", "meditation_guide",
     "lawyer", ""}

\* "stock" (the classifier says financial_advice) and "hi" (conversation).
SpecialtyQueries == { <<"s", "t", "o", "c", "k">>, <<"h", "i">> }

InitSpecialty ==
    EngineInit({[openai_api_key |-> TRUE, google_api_key |-> TRUE]}, 1)

NextSpecialty ==
    \/ GetSpecializedResponse(1, Specialties, SpecialtyQueries,
                              SpecialtyRequests)
    \/ Classify(1)
    \/ Select(1)
    \/ Dispatch(1)
    \/ AdapterReturns(1, Responses, AdapterErrors)
    \/ Personalize(1)
    \/ Record(1)
    \/ Return(1)

SpecSpecialty == InitSpecialty /\ [][NextSpecialty]_vars

\* The category each known specialty key stands for.
SpecialtyCategory ==
    [financial_advisor |-> FINANCIAL_ADVICE,
     therapist |-> PSYCHOLOGICAL_SUPPORT,
     creative_writer |-> CREATIVE_WRITING,
     meditation_guide |-> MEDITATION]

KnownSpecialty(c) == calls[c].specialty \in DOMAIN SpecialtyCategory

UnknownSpecialty(c) ==
    calls[c].specialty # None /\ ~KnownSpecialty(c)

\* C16: get_specialized_response with a known key is process_request with
\* the key's fixed category, whatever the classifier says of the query: the
\* category is used for selection, reported in a successful result and
\* recorded.  With an unknown key the call returns {success: false, error}
\* at once: no model is selected, no adapter is called, and the history is
\* left as it was.
C16_SpecialtyShortcut ==
    /\ [](\A c \in DOMAIN calls :
            /\ KnownSpecialty(c) =>
                 LET category == SpecialtyCategory[calls[c].specialty]
                 IN  /\ calls[c].pc # "Idle"
                     /\ calls[c].task_arg = category
                     /\ calls[c].pc # "Received" =>
                            calls[c].task_type = category
                     /\ Selected(c) =>
                            calls[c].selected_model =
                                SelectBestModel(models, category)
                     /\ calls[c].pc \in AfterDispatch /\ calls[c].result.success
                            => calls[c].result.task_type = category
                     /\ calls[c].pc \in {"Recorded", "Returned"} =>
                            recorded[Len(recorded)].task_type = category
            /\ UnknownSpecialty(c) =>
                 /\ calls[c].pc = "Returned"
                 /\ DOMAIN calls[c].result = {"success", "error"}
                 /\ calls[c].result.success = FALSE
                 /\ calls[c].result.error # <<>>
                 /\ calls[c].selected_model = None
                 /\ calls[c].request = NoneObj)
    /\ [][\A c \in DOMAIN calls :
             UnknownSpecialty(c)' /\ calls'[c] # calls[c] =>
                 /\ conversation_history' = conversation_history
                 /\ recorded' = recorded
                 /\ started' = started]_vars

\* An unknown key is refused after a request through a known key was
\* recorded: the history still holds that one entry; the known key's query
\* was one the classifier files elsewhere.
C16_Witness ==
    /\ calls[1].pc = "Returned"
    /\ calls[1].specialty = "lawyer"
    /\ calls[1].result = SpecialtyNotFound
    /\ Len(conversation_history) = 1
    /\ conversation_history[1].task_type = MEDITATION
    /\ conversation_history[1].user_input = <<"s", "t", "o", "c", "k">>
    /\ conversation_history[1].success

(***************************************************************************)
(* Direct calls of setup_personality and get_personality_info              *)
(***************************************************************************)
\* engine.setup_personality(gender, name, personality_type): the arguments
\* and the profile returned are kept in direct.
SetupPersonalityCall(genders, names, personality_types, max_setups) ==
    /\ LoopFree
    /\ setups < max_setups
    /\ \E gender \in genders, name_arg \in names,
          personality_type \in personality_types :
         \E name \in IF name_arg = None \/ name_arg = ""
                     THEN Range(NamePool(gender))
                     ELSE {name_arg} :
            /\ personality' = MakeProfile(gender, name, personality_type)
            /\ direct' = [method |-> "setup_personality",
                          gender |-> gender,
                          name |-> name_arg,
                          personality_type |-> personality_type,
                          returned |-> personality']
    /\ setups' = setups + 1
    /\ UNCHANGED <<settings, models, conversation_history, calls, clock,
                   recorded, started>>

NoPersonalityConfigured ==
    [error |-> <<"N", "o", " ", "p", "e", "r", "s", "o", "n", "a", "l", "i",
                 "t", "y", " ", "c", "o", "n", "f", "i", "g", "u", "r", "e",
                 "d">>]

\* A variant without the check for a missing profile: reading a field of
\* None raises AttributeError.
GetPersonalityInfoUnchecked(profile) ==
    IF profile = NoneObj
    THEN [raised |-> "AttributeError"]
    ELSE [name |-> profile.name,
          gender |-> profile.gender,
          traits |-> profile.personality_traits,
          communication_style |-> profile.communication_style,
          expertise_areas |-> profile.expertise_areas,
          emotional_intelligence |-> profile.emotional_intelligence,
          humor_level |-> profile.humor_level,
          formality_level |-> profile.formality_level]

\* The dict get_personality_info returns for self.personality = profile.
GetPersonalityInfo(profile) ==
    IF profile = NoneObj
    THEN NoPersonalityConfigured
    ELSE [name |-> profile.name,
          gender |-> profile.gender,
          traits |-> profile.personality_traits,
          communication_style |-> profile.communication_style,
          expertise_areas |-> profile.expertise_areas,
          emotional_intelligence |-> profile.emotional_intelligence,
          humor_level |-> profile.humor_level,
          formality_level |-> profile.formality_level]

\* engine.get_personality_info()
GetPersonalityInfoCall ==
    /\ LoopFree
    /\ direct' = [method |-> "get_personality_info",
                  returned |-> GetPersonalityInfo(personality)]
    /\ UNCHANGED <<settings, models, personality, conversation_history,
                   calls, clock, recorded, started, setups>>

(***************************************************************************)
(* SpecSetup: sequences of setup_personality calls with every kind of      *)
(* argument, and get_personality_info called before, between and after.    *)
(***************************************************************************)
SetupCalls == 2

SetupGenders == {"female", "male", "neutral", "robot"}

SetupNames == {None, "", "Robert"}

SetupTypes == {"friendly", "professional", "companion", "mystery"}

InitSetup ==
    EngineInit({[openai_api_key |-> TRUE, google_api_key |-> FALSE]}, 1)

NextSetup ==
    \/ SetupPersonalityCall(SetupGenders, SetupNames, SetupTypes, SetupCalls)
    \/ GetPersonalityInfoCall

SpecSetup == InitSetup /\ [][NextSetup]_vars

SetupCalled == direct # NoneObj /\ direct.method = "setup_personality"

InfoCalled == direct # NoneObj /\ direct.method = "get_personality_info"

\* The configuration a personality type is given: its own when it is one of
\* the three known types, the friendly one otherwise.
ConfigOfType(personality_type) ==
    IF personality_type \in DOMAIN personality_configs
    THEN personality_configs[personality_type]
    ELSE personality_configs.friendly

\* C17: setup_personality installs one profile that wholly replaces the
\* previous one: the profile returned is the engine's profile; it has the
\* requested gender, the caller's name when one is given and a name of the
\* pool of that gender otherwise, the traits and the style of the requested
\* type, and no field that is not set from the arguments of this call.
C17_SetupInstalls ==
    /\ [](SetupCalled =>
            LET p == direct.returned
                config == ConfigOfType(direct.personality_type)
            IN  /\ personality = p
                /\ p.gender = direct.gender
                /\ direct.name \notin {None, ""} => p.name = direct.name
                /\ direct.name \in {None, ""} =>
                       p.name \in Range(
                           CASE direct.gender = "female" -> FemaleNames
                             [] direct.gender = "male" -> MaleNames
                             [] OTHER -> NeutralNames)
                /\ p.personality_traits = config.traits
                /\ p.communication_style = config.communication_style
                /\ DOMAIN p =
                       {"gender", "name", "personality_traits",
                        "communication_style", "expertise_areas",
                        "emotional_intelligence", "humor_level",
                        "formality_level", "empathy_level"}
                /\ p.expertise_areas = ExpertiseAreas
                /\ p.emotional_intelligence = config.empathy_level
                /\ p.humor_level = config.humor_level
                /\ p.formality_level = config.formality_level
                /\ p.empathy_level = config.empathy_level)
    /\ [][setups' # setups =>
             SetupCalled' /\ personality' = direct'.returned]_vars

\* A second setup call, without a name, replaces a profile: the engine's
\* profile is the professional male one returned, with a name of the male
\* pool.
C17_Witness ==
    /\ SetupCalled
    /\ setups = 2
    /\ direct.gender = "male"
    /\ direct.name = None
    /\ direct.personality_type = "professional"
    /\ personality.name = "Max"
    /\ personality.formality_level = 80
    /\ personality.personality_traits = personality_configs.professional.traits

\* C18: get_personality_info returns {error}, and does not raise, in every
\* state in which no setup_personality call has completed; after one has, it
\* returns the fields of the active profile.
C18_InfoOrError ==
    InfoCalled =>
        LET info == direct.returned
        IN  /\ "raised" \notin DOMAIN info
            /\ (setups = 0) = (personality = NoneObj)
            /\ setups = 0 =>
                   /\ DOMAIN info = {"error"}
                   /\ info.error # <<>>
            /\ setups > 0 =>
                   /\ "error" \notin DOMAIN info
                   /\ info.name = personality.name
                   /\ info.gender = personality.gender
                   /\ info.traits = personality.personality_traits
                   /\ info.communication_style = personality.communication_style
                   /\ info.expertise_areas = personality.expertise_areas
                   /\ info.emotional_intelligence =
                          personality.emotional_intelligence
                   /\ info.humor_level = personality.humor_level
                   /\ info.formality_level = personality.formality_level

\* The info asked for before any setup.
C18_Witness ==
    /\ InfoCalled
    /\ setups = 0
    /\ personality = NoneObj
    /\ direct.returned = NoPersonalityConfigured

\* The levels of a profile, in hundredths.
Levels(profile) ==
    {profile.emotional_intelligence, profile.humor_level,
     profile.formality_level, profile.empathy_level}

\* C19: in every state with a profile set, after any sequence of
\* setup_personality calls with any gender, name and personality type
\* (unknown types included), the four levels lie in [0, 1].
C19_LevelsInUnitInterval ==
    personality # NoneObj =>
        \A level \in Levels(personality) : 0 <= level /\ level <= 100

\* A profile set by a call with an unknown type and an unknown gender.
C19_Witness ==
    /\ SetupCalled
    /\ setups = 2
    /\ direct.personality_type = "mystery"
    /\ direct.gender = "robot"
    /\ personality # NoneObj
    /\ Levels(personality) = {90, 70, 30}

(***************************************************************************)
(* SpecRegistry: every operation of the engine, in every credential        *)
(* configuration, with adapters that answer and adapters that raise.       *)
(***************************************************************************)
RegistryRequests == 2
RegistrySetups == 1

InitRegistry == EngineInit(Settings, 1)

NextRegistry ==
    \/ SetupPersonality({"neutral"}, {"Dana"}, {"companion"}, RegistrySetups)
    \/ Receive(1, { <<"s", "t", "o", "c", "k">> }, {None}, RegistryRequests)
    \/ GetSpecializedResponse(1, {"creative_writer", "lawyer"},
                              { <<"h", "i">> }, RegistryRequests)
    \/ Classify(1)
    \/ Select(1)
    \/ Dispatch(1)
    \/ AdapterReturns(1, Responses, AdapterErrors)
    \/ Personalize(1)
    \/ Record(1)
    \/ Return(1)
    \/ GetConversationStatsCall

SpecRegistry == InitRegistry /\ [][NextRegistry]_vars

\* C20: the registry (the models registered, each one's available flag,
\* specialties and performance score) is what _initialize_models built at
\* construction: no step of process_request, get_specialized_response,
\* setup_personality or get_conversation_stats changes it, whatever the
\* adapters answer.
C20_RegistryFixed ==
    /\ [](models = InitializeModels(settings))
    /\ [][/\ models' = models
          /\ settings' = settings]_vars

\* After a setup, a request through a specialty that failed in its adapter,
\* a plain request and the stats, the registry is the one of construction.
C20_Witness ==
    /\ models = InitializeModels(settings)
    /\ settings.google_api_key
    /\ personality # NoneObj
    /\ StatsCalled
    /\ Len(recorded) = 2
    /\ recorded[1].task_type = CREATIVE_WRITING
    /\ ~recorded[1].success
    /\ recorded[2].task_type = FINANCIAL_ADVICE
    /\ calls[1].pc = "Returned"

(***************************************************************************)
(* The classifier's scores (SpecClassify)                                  *)
(***************************************************************************)
\* The score the classifier gave a category: its entry in task_scores, 0
\* when it has none.
ScoreGiven(category) ==
    LET at == {i \in DOMAIN direct.task_scores :
                  direct.task_scores[i].task = category}
    IN  IF at = {} THEN 0 ELSE direct.task_scores[CHOOSE i \in at : TRUE].score

\* The occurrences of the trigger phrases of a category in a text, each
\* occurrence counted.
RECURSIVE SumOccurrences(_, _)
SumOccurrences(phrases, lowered) ==
    IF phrases = {} THEN 0
    ELSE LET phrase == CHOOSE p \in phrases : TRUE
         IN  Occurrences(phrase, lowered)
             + SumOccurrences(phrases \ {phrase}, lowered)

\* C21 (as claimed): the score of a category counts the occurrences of its
\* trigger phrases in the lower-cased input with multiplicity.
C21_ScoreWithMultiplicity ==
    Detected =>
        \A category \in KeywordCategories :
            ScoreGiven(category) =
                SumOccurrences(TriggerPhrases(category),
                               Lower(direct.user_input))

\* C21 (amended): the score of a category is the number of its trigger
\* phrases that occur in the lower-cased input, a phrase that occurs twice
\* counted once; so the score is at most the count with multiplicity, and at
\* most the number of the category's trigger phrases.
C21_ScoreCountsPhrasesOnce ==
    Detected =>
        LET lowered == Lower(direct.user_input)
        IN  \A category \in KeywordCategories :
                /\ ScoreGiven(category) =
                       Cardinality({phrase \in TriggerPhrases(category) :
                                       Occurrences(phrase, lowered) >= 1})
                /\ ScoreGiven(category) <=
                       SumOccurrences(TriggerPhrases(category), lowered)

\* "sad sad stock": "sad" occurs twice and scores 1, which ties the scores;
\* the category returned is financial_advice.
C21_Witness ==
    /\ Detected
    /\ direct.user_input =
           <<"s", "a", "d", " ", "s", "a", "d", " ", "s", "t", "o", "c", "k">>
    /\ ScoreGiven(PSYCHOLOGICAL_SUPPORT) = 1
    /\ ScoreGiven(FINANCIAL_ADVICE) = 1
    /\ direct.returned = FINANCIAL_ADVICE

\* The order in which tied categories are preferred.
TiePriority ==
    <<FINANCIAL_ADVICE, PSYCHOLOGICAL_SUPPORT, CREATIVE_WRITING, TRANSLATION,
      MEDITATION, RESEARCH>>

\* The categories whose count of trigger phrases found in a text is the
\* greatest, when some phrase is found.
TopCategories(text) ==
    LET count == PhraseCounts(text)
    IN  {a \in KeywordCategories :
            /\ count[a] > 0
            /\ \A b \in KeywordCategories : count[b] <= count[a]}

\* C22: when two or more categories tie for the maximum score, the category
\* returned is the first of the tied ones in the order financial_advice,
\* psychological_support, creative_writing, translation, meditation,
\* research, whatever the input (so identical inputs give identical results,
\* and so do inputs that hold the same phrases in another order).
C22_TiesByFixedPriority ==
    Detected /\ Cardinality(TopCategories(direct.user_input)) >= 2 =>
        LET top == TopCategories(direct.user_input)
            first == CHOOSE i \in DOMAIN TiePriority :
                        /\ TiePriority[i] \in top
                        /\ \A j \in 1 .. i - 1 : TiePriority[j] \notin top
        IN  direct.returned = TiePriority[first]

\* "translate sad": translation and psychological_support tie at 1, the
\* later one in the text is returned.
C22_Witness ==
    /\ Detected
    /\ direct.user_input =
           <<"t", "r", "a", "n", "s", "l", "a", "t", "e", " ", "s", "a", "d">>
    /\ TopCategories(direct.user_input) = {TRANSLATION, PSYCHOLOGICAL_SUPPORT}
    /\ direct.returned = PSYCHOLOGICAL_SUPPORT

(***************************************************************************)
(* SpecReplay: sequential requests on the OpenAI path with texts and       *)
(* replies that tell the entries of the history apart, and with adapters   *)
(* that raise.                                                             *)
(***************************************************************************)
ReplayRequests == 7

ReplayTexts == { <<"a">>, <<"b">> }

ReplayResponses == { [content |-> <<"x">>, usage |-> 1],
                     [content |-> <<"y">>, usage |-> 1] }

InitReplay ==
    EngineInit({[openai_api_key |-> TRUE, google_api_key |-> FALSE]}, 1)

NextReplay ==
    \/ Receive(1, ReplayTexts, {None}, ReplayRequests)
    \/ Classify(1)
    \/ Select(1)
    \/ Dispatch(1)
    \/ AdapterReturns(1, ReplayResponses, AdapterErrors)
    \/ Personalize(1)
    \/ Record(1)
    \/ Return(1)

SpecReplay == InitReplay /\ [][NextReplay]_vars

C24_UniformContext ==
    \A c \in DOMAIN calls :
        calls[c].request # NoneObj =>
            /\ "messages" \in DOMAIN calls[c].request
            /\ LET messages == calls[c].request.messages
               IN  /\ messages[1].role = "system"
                   /\ messages[1].content.system_prompt =
                          SystemPrompt(calls[c].task_type)
                   /\ calls[c].pc = "Awaiting" /\ personality # NoneObj =>
                          messages[1].content.personality_info # NoneObj
                   /\ messages[Len(messages)].content = calls[c].user_input

(***************************************************************************)
(* What personalization does to the text (SpecPersonality)                 *)
(***************************************************************************)
\* The texts an opener and an empathetic phrase put before a content.
Openers == {friendly_starters[i] \o <<",", " ">> : i \in DOMAIN friendly_starters}

EmpathyPrefixes ==
    {empathy_phrases[i] \o <<".", " ">> : i \in DOMAIN empathy_phrases}

\* Call c takes its personalization step on a successful response.
PersonalizesSuccess(c) ==
    /\ calls[c].pc = "Dispatched"
    /\ calls'[c].pc = "Personalized"
    /\ Get(calls[c].result, "success", FALSE)

EndsWith(s, tail) ==
    /\ Len(tail) <= Len(s)
    /\ SubSeq(s, Len(s) - Len(tail) + 1, Len(s)) = tail

\* What the step put before the raw content.
Prepended(c) ==
    SubSeq(calls'[c].result.content, 1,
           Len(calls'[c].result.content) - Len(calls[c].result.content))

OpenerPrepended(c) ==
    \E o \in Openers : EndsWith(Prepended(c), o)

EmpathyPrepended(c) ==
    \E e \in EmpathyPrefixes :
        Prepended(c) = e \/ \E o \in Openers : Prepended(c) = e \o o

StartsWithGreeting(content) ==
    \E i \in DOMAIN Greetings :
        /\ Len(Greetings[i]) <= Len(content)
        /\ SubSeq(Lower(content), 1, Len(Greetings[i])) = Greetings[i]

\* C25: an opener is prepended to a successful response only if the
\* formality level of the active profile is below 0.5 and the response does
\* not start with a greeting; with a formality level of 0.5 or more no
\* opener is prepended, whatever the draws.
C25_OpenerOnlyIfInformal ==
    [][\A c \in DOMAIN calls :
          PersonalizesSuccess(c) /\ EndsWith(calls'[c].result.content,
                                             calls[c].result.content) =>
              /\ OpenerPrepended(c) =>
                     /\ personality # NoneObj
                     /\ personality.formality_level < 50
                     /\ ~StartsWithGreeting(calls[c].result.content)
              /\ personality # NoneObj /\ personality.formality_level >= 50 =>
                     ~OpenerPrepended(c)]_vars

\* A friendly profile's reply with an opener, and no greeting at its start.
C25_Witness ==
    /\ calls[1].pc = "Personalized"
    /\ calls[1].task_type = RESEARCH
    /\ personality # NoneObj
    /\ personality.formality_level = 30
    /\ calls[1].result.success
    /\ calls[1].result.content = <<"W", "e", "l", "l", ",", " ", "o", "k">>

\* C26: an empathetic phrase is prepended to a successful response only if
\* the category is psychological_support and the empathy level of the
\* active profile is above 0.8; for any other category or a lower level none
\* is prepended, whatever the draws.
C26_EmpathyOnlyForSupport ==
    [][\A c \in DOMAIN calls :
          PersonalizesSuccess(c) /\ EndsWith(calls'[c].result.content,
                                             calls[c].result.content) =>
              /\ EmpathyPrepended(c) =>
                     /\ calls[c].task_type = PSYCHOLOGICAL_SUPPORT
                     /\ personality # NoneObj
                     /\ personality.empathy_level > 80
              /\ (calls[c].task_type # PSYCHOLOGICAL_SUPPORT
                  \/ (personality # NoneObj /\ personality.empathy_level <= 80))
                 => ~EmpathyPrepended(c)]_vars

\* A supportive reply of the companion profile with an empathetic phrase.
C26_Witness ==
    /\ calls[1].pc = "Personalized"
    /\ calls[1].task_type = PSYCHOLOGICAL_SUPPORT
    /\ personality # NoneObj
    /\ personality.empathy_level = 95
    /\ calls[1].result.success
    /\ calls[1].result.content =
           empathy_phrases[3] \o <<".", " ">> \o <<"H", "i", " ", "t", "h", "e", "r", "e">>

\* C30: personalization only prepends: the content it returns ends with the
\* raw content, and what comes before is nothing, one opener, one empathetic
\* phrase, or one empathetic phrase followed by one opener; success,
\* model_used and task_type are as they were.
C30_OnlyPrepends ==
    [][\A c \in DOMAIN calls :
          PersonalizesSuccess(c) =>
              /\ EndsWith(calls'[c].result.content, calls[c].result.content)
              /\ \/ Prepended(c) = <<>>
                 \/ Prepended(c) \in Openers
                 \/ Prepended(c) \in EmpathyPrefixes
                 \/ \E e \in EmpathyPrefixes, o \in Openers :
                        Prepended(c) = e \o o
              /\ calls'[c].result.success = calls[c].result.success
              /\ calls'[c].result.model_used = calls[c].result.model_used
              /\ calls'[c].result.task_type = calls[c].result.task_type]_vars

\* A reply with both: the empathetic phrase, the opener, the raw content.
C30_Witness ==
    /\ calls[1].pc = "Returned"
    /\ calls[1].result.success
    /\ calls[1].result.content =
           empathy_phrases[5] \o <<".", " ">> \o friendly_starters[5]
           \o <<",", " ">> \o <<"o", "k">>
    /\ calls[1].result.model_used = GPT35_TURBO
    /\ calls[1].result.task_type = PSYCHOLOGICAL_SUPPORT

(***************************************************************************)
(* The most used category and adapter (SpecStats)                          *)
(***************************************************************************)
\* The number of entries of the history whose field is k.
TimesIn(history, field, k) ==
    Cardinality({i \in DOMAIN history : history[i][field] = k})

\* The entry at which k is first met in the history.
FirstAt(history, field, k) ==
    CHOOSE i \in DOMAIN history :
        /\ history[i][field] = k
        /\ \A j \in 1 .. i - 1 : history[j][field] # k

\* k occurs in the history as often as any other value of the field, and
\* is met before every other value that occurs as often.
FirstMostFrequent(history, field, k) ==
    /\ TimesIn(history, field, k) > 0
    /\ \A i \in DOMAIN history :
          LET other == history[i][field]
          IN  /\ TimesIn(history, field, other) <= TimesIn(history, field, k)
              /\ other # k /\ TimesIn(history, field, other)
                                = TimesIn(history, field, k)
                 => FirstAt(history, field, k) < i

\* C27: on a non-empty history get_conversation_stats reports as most used
\* task category and most used adapter a value of maximal count, and among
\* several of maximal count the one first met in history order.
C27_MostUsedFirstOnTies ==
    StatsCalled /\ direct.history # <<>> =>
        /\ FirstMostFrequent(direct.history, "task_type",
                             direct.returned.most_used_task)
        /\ FirstMostFrequent(direct.history, "model_used",
                             direct.returned.most_used_model)

\* creative_writing once, then conversation once: a tie on both counts; the
\* stats name creative_writing and its adapter, met first.
C27_Witness ==
    /\ StatsCalled
    /\ Len(direct.history) = 2
    /\ direct.history[1].task_type = CREATIVE_WRITING
    /\ direct.history[2].task_type = CONVERSATION
    /\ direct.history[1].model_used # direct.history[2].model_used
    /\ direct.returned.most_used_task = CREATIVE_WRITING
    /\ direct.returned.most_used_model = direct.history[1].model_used

(***************************************************************************)
(* SpecWindow: sequential requests on both adapter paths, succeeding and   *)
(* failing, for long enough that a failed entry leaves the replay window.  *)
(***************************************************************************)
WindowRequests == 7

\* "a" (conversation, OpenAI path) and "story" (creative_writing, Gemini).
WindowTexts == { <<"a">>, <<"s", "t", "o", "r", "y">> }

InitWindow ==
    EngineInit({[openai_api_key |-> TRUE, google_api_key |-> TRUE]}, 1)

NextWindow ==
    \/ Receive(1, WindowTexts, {None}, WindowRequests)
    \/ Classify(1)
    \/ Select(1)
    \/ Dispatch(1)
    \/ AdapterReturns(1, Responses, AdapterErrors)
    \/ Personalize(1)
    \/ Record(1)
    \/ Return(1)

SpecWindow == InitWindow /\ [][NextWindow]_vars

\* One of the last 5 entries of the history is a failed one.
FailedInWindow(history) ==
    \E i \in DOMAIN history :
        i > Len(history) - 5 /\ ~history[i].success

\* C28: a request dispatched through the OpenAI path while one of the last 5
\* history entries is a failed one makes no adapter call and has
\* success = false as its result; hence an entry recorded after a failed one,
\* with only OpenAI-path adapters serving the requests in between and itself,
\* is a failed one.
C28_FailureReplays ==
    /\ [][\A c \in DOMAIN calls :
             /\ calls[c].pc = "Selected"
             /\ calls[c].selected_model # GEMINI_PRO
             /\ FailedInWindow(conversation_history)
             => /\ calls'[c].pc = "Dispatched"
                /\ ~calls'[c].result.success]_vars
    /\ [](\A i, j \in DOMAIN conversation_history :
             /\ i < j
             /\ ~conversation_history[i].success
             /\ \A k \in (i + 1) .. j :
                   conversation_history[k].model_used # GEMINI_PRO
             => ~conversation_history[j].success)

\* A failed entry, a successful Gemini entry, then an OpenAI-path request
\* that failed on the replay of the first, recorded as failed.
C28_Witness ==
    /\ Len(conversation_history) = 3
    /\ ~conversation_history[1].success
    /\ conversation_history[2].success
    /\ conversation_history[2].model_used = GEMINI_PRO
    /\ conversation_history[3].model_used = GPT4
    /\ ~conversation_history[3].success
    /\ conversation_history[3].response.error = Str(ContentKeyError)
    /\ calls[1].pc = "Returned"
    /\ ~calls[1].result.success

(***************************************************************************)
(* The adapter an entry records (Spec)                                     *)
(***************************************************************************)
\* C29: in every history entry whose response is successful, model_used is
\* the model_used its response reports: the recorded adapter is the one that
\* served the request, also when the selected model has no backend of its
\* own (llama-2-70b, t5-large).
C29_RecordedAdapterServed ==
    \A i \in DOMAIN conversation_history :
        conversation_history[i].success =>
            conversation_history[i].model_used
                = conversation_history[i].response.model_used
=============================================================================
